---- MODULE Spec2Model ----
(***************************************************************************)
(* Bulk registration upload validation engine                              *)
(* (website/registrations/utils.py): BulkRegistrationUpload, Row, Cell and *)
(* the eight field validators.                                             *)
(*                                                                         *)
(* A Python str is a sequence of one-character strings; a Python value is  *)
(* a record [t, v] whose tag t is "None", "str", "list" or "dict".         *)
(***************************************************************************)
EXTENDS Integers, Sequences, FiniteSets, TLC

(***************************************************************************)
(* Python str primitives                                                   *)
(***************************************************************************)

LowerLetters ==
    {"a","b","c","d","e","f","g","h","i","j","k","l","m",
     "n","o","p","q","r","s","t","u","v","w","x","y","z"}

UpperLetters ==
    {"A","B","C","D","E","F","G","H","I","J","K","L","M",
     "N","O","P","Q","R","S","T","U","V","W","X","Y","Z"}

Digits == {"0","1","2","3","4","5","6","7","8","9"}

\* \w of the re module (ASCII part)
WordChars == LowerLetters \cup UpperLetters \cup Digits \cup {"_"}

\* what str.strip() removes
Whitespace == {" ", "\t", "\n"}

SetMin(S) == CHOOSE x \in S : \A y \in S : x <= y

SetMax(S) == CHOOSE x \in S : \A y \in S : y <= x

\* str.strip()
Strip(s) ==
    LET keep == {i \in 1..Len(s) : s[i] \notin Whitespace}
    IN  IF keep = {} THEN <<>> ELSE SubSeq(s, SetMin(keep), SetMax(keep))

\* str.split(sep) for a one-character separator: never an empty list
RECURSIVE Split(_, _)
Split(s, sep) ==
    LET at == {i \in 1..Len(s) : s[i] = sep}
    IN  IF at = {} THEN <<s>>
        ELSE LET p == SetMin(at)
             IN  <<SubSeq(s, 1, p - 1)>> \o Split(SubSeq(s, p + 1, Len(s)), sep)

\* [val.strip() for val in value.split(sep)]
SplitStrip(s, sep) ==
    LET parts == Split(s, sep)
    IN  [i \in 1..Len(parts) |-> Strip(parts[i])]

\* length of the longest prefix of s made of characters of Class
RunLen(s, Class) ==
    LET bad == {i \in 1..Len(s) : s[i] \notin Class}
    IN  IF bad = {} THEN Len(s) ELSE SetMin(bad) - 1

\* one ASCII letter lowered
LowerChar(c) ==
    CASE c = "A" -> "a" [] c = "B" -> "b" [] c = "C" -> "c" [] c = "D" -> "d"
      [] c = "E" -> "e" [] c = "F" -> "f" [] c = "G" -> "g" [] c = "H" -> "h"
      [] c = "I" -> "i" [] c = "J" -> "j" [] c = "K" -> "k" [] c = "L" -> "l"
      [] c = "M" -> "m" [] c = "N" -> "n" [] c = "O" -> "o" [] c = "P" -> "p"
      [] c = "Q" -> "q" [] c = "R" -> "r" [] c = "S" -> "s" [] c = "T" -> "t"
      [] c = "U" -> "u" [] c = "V" -> "v" [] c = "W" -> "w" [] c = "X" -> "x"
      [] c = "Y" -> "y" [] c = "Z" -> "z" [] OTHER -> c

\* str.lower()
Lower(s) == [i \in 1..Len(s) |-> LowerChar(s[i])]

\* dict.get(key, default)
Get(d, key, default) == IF key \in DOMAIN d THEN d[key] ELSE default

(***************************************************************************)
(* Python values                                                           *)
(***************************************************************************)

PyNone == [t |-> "None", v |-> <<>>]

PyStr(s) == [t |-> "str", v |-> s]

PyList(l) == [t |-> "list", v |-> l]

PyDict(d) == [t |-> "dict", v |-> d]


(***************************************************************************)
(* External collaborators: master data the validators look up              *)
(***************************************************************************)

S_MIT == <<"M","I","T">>

S_BSD == <<"B","S","D">>

S_year == <<"y","e","a","r">>

S_holders == <<"h","o","l","d","e","r","s">>

S_CC_BY == <<"C","C","-","B","Y">>

\* NodeLicense rows: name and the required custom properties
NodeLicenses ==
    { [name |-> S_MIT, properties |-> <<>>],
      [name |-> S_BSD, properties |-> <<S_year, S_holders>>],
      [name |-> S_CC_BY, properties |-> <<S_year, S_holders>>] }

S_psy == <<"P","s","y">>

S_law == <<"L","a","w">>

\* Subject.text values, in the order the query returns them
SubjectTexts == <<S_law, S_psy>>

S_uva == <<"U","V","A">>

\* Institution.name values, in the order the query returns them
InstitutionNames == <<S_uva>>

S_data == <<"d","a","t","a">>

S_Data == <<"D","a","t","a">>

S_project == <<"p","r","o","j","e","c","t">>

S_Project == <<"P","r","o","j","e","c","t">>

\* settings.NODE_CATEGORY_MAP
NODE_CATEGORY_MAP == (S_data :> S_Data) @@ (S_project :> S_Project)

S_guid == <<"a","b","1","2">>

\* guids of the AbstractNode rows with is_deleted=False, type='osf.node'
ProjectGuids == {S_guid}

(***************************************************************************)
(* Field validators                                                        *)
(* _validate returns [pv, log, exc]: the new _parsed_value, the log_error  *)
(* calls in order ("missing" / "invalid") and the exception raised.        *)
(***************************************************************************)

ValidateResult(pv, log, exc) == [pv |-> pv, log |-> log, exc |-> exc]

\* indexes of the choices of a multiselect cell that are in options
ValidChoiceIdx(choices, options) ==
    {i \in 1..Len(choices) : \E k \in 1..Len(options) : options[k] = choices[i]}

\* RegistrationResponseField._validate, the multiselect loop: every choice
\* not in options logs invalid; the first choice in options reaches
\* parse_value.append, an unbound name
MultiselectLoop(f) ==
    LET choices == SplitStrip(f.value, ";")
        ok      == ValidChoiceIdx(choices, f.options)
        last    == IF ok = {} THEN Len(choices) ELSE SetMin(ok) - 1
        log     == [i \in 1..last |-> "invalid"]
    IN  IF ok = {} THEN ValidateResult(PyList(<<>>), log, "none")
        ELSE ValidateResult(f.parsed_value, log, "NameError")

RegistrationResponseField_validate(f) ==
    IF f.required /\ f.value = <<>>
    THEN ValidateResult(f.parsed_value, <<"missing">>, "none")
    ELSE IF f.type = "string"
    THEN ValidateResult(PyStr(f.value), <<>>, "none")
    ELSE IF f.type = "choose" /\ f.format \in {"singleselect", "multiselect"}
    THEN IF f.format = "singleselect"
         THEN IF \E k \in 1..Len(f.options) : f.options[k] = f.value
              THEN ValidateResult(PyStr(f.value), <<>>, "none")
              ELSE ValidateResult(PyNone, <<"invalid">>, "none")
         ELSE MultiselectLoop(f)
    ELSE ValidateResult(PyNone, <<>>, "none")

\* MetadataField._validate without the strip() of the list's tokens
MetadataField_validate_untrimmed(f) ==
    IF f.required /\ f.value = <<>>
    THEN [pv |-> f.parsed_value, log |-> <<"missing">>, exc |-> "none"]
    ELSE IF f.format = "string"
    THEN [pv |-> [t |-> "str", v |-> f.value], log |-> <<>>, exc |-> "none"]
    ELSE [pv |-> [t |-> "list", v |-> Split(f.value, ";")], log |-> <<>>,
          exc |-> "none"]

MetadataField_validate(f) ==
    IF f.required /\ f.value = <<>>
    THEN ValidateResult(f.parsed_value, <<"missing">>, "none")
    ELSE IF f.format = "string"
    THEN ValidateResult(PyStr(f.value), <<>>, "none")
    ELSE IF f.format = "list"
    THEN ValidateResult(PyList(SplitStrip(f.value, ";")), <<>>, "none")
    ELSE ValidateResult(PyNone, <<>>, "none")

\* contributor_regex.match(s): (?P<full_name>[\w -]+)<(?P<email>.*?)>
contributor_regex(s) ==
    LET n      == RunLen(s, WordChars \cup {" ", "-"})
        closes == {j \in (n + 2)..Len(s) : s[j] = ">"}
        brk    == {j \in (n + 2)..Len(s) : s[j] = "\n"}
    IN  IF n >= 1 /\ n < Len(s) /\ s[n + 1] = "<" /\ closes # {}
           /\ \A b \in brk : b > SetMin(closes)
        THEN [matched |-> TRUE,
              full_name |-> SubSeq(s, 1, n),
              email |-> SubSeq(s, n + 2, SetMin(closes) - 1)]
        ELSE [matched |-> FALSE, full_name |-> <<>>, email |-> <<>>]

\* the contributors of the matching tokens, in order
RECURSIVE ContributorMatches(_)
ContributorMatches(tokens) ==
    IF tokens = <<>> THEN <<>>
    ELSE LET m == contributor_regex(Strip(Head(tokens)))
         IN  (IF m.matched
              THEN <<[full_name |-> m.full_name, email |-> m.email]>>
              ELSE <<>>) \o ContributorMatches(Tail(tokens))

\* ContributorField._validate failing the cell on a token without a match
ContributorField_validate_strict(f) ==
    IF f.required /\ f.value = <<>>
    THEN [pv |-> f.parsed_value, log |-> <<"missing">>, exc |-> "none"]
    ELSE IF Len(ContributorMatches(SplitStrip(f.value, ";")))
              < Len(SplitStrip(f.value, ";"))
    THEN [pv |-> f.parsed_value, log |-> <<"invalid">>, exc |-> "none"]
    ELSE [pv |-> [t |-> "list", v |-> ContributorMatches(SplitStrip(f.value, ";"))],
          log |-> <<>>, exc |-> "none"]

ContributorField_validate(f) ==
    IF f.required /\ f.value = <<>>
    THEN ValidateResult(f.parsed_value, <<"missing">>, "none")
    ELSE ValidateResult(PyList(ContributorMatches(SplitStrip(f.value, ";"))),
                        <<>>, "none")


\* characters of [\w -,]: \w and the range from " " to ","
HolderChars ==
    WordChars \cup {" ", "!", "\"", "#", "$", "%", "&", "'", "(", ")", "*", "+", ","}

\* no_required_fields_regex.match(s): (?P<name>[\w ]+)
no_required_fields_regex(s) ==
    LET n == RunLen(s, WordChars \cup {" "})
    IN  [matched |-> n >= 1, name |-> SubSeq(s, 1, n)]

\* with_required_fields_regex.match(s):
\* (?P<name>[\w ]+);(?P<year>[ ][1-3][0-9]{3});(?P<copyright_holders>[\w -,]+)
with_required_fields_regex(s) ==
    LET n    == RunLen(s, WordChars \cup {" "})
        rest == SubSeq(s, n + 8, Len(s))
        m    == RunLen(rest, HolderChars)
    IN  IF /\ n >= 1
           /\ Len(s) >= n + 8
           /\ s[n + 1] = ";"
           /\ s[n + 2] = " "
           /\ s[n + 3] \in {"1", "2", "3"}
           /\ \A k \in (n + 4)..(n + 6) : s[k] \in Digits
           /\ s[n + 7] = ";"
           /\ m >= 1
        THEN [matched |-> TRUE,
              name |-> SubSeq(s, 1, n),
              year |-> SubSeq(s, n + 2, n + 6),
              copyright_holders |-> SubSeq(rest, 1, m)]
        ELSE [matched |-> FALSE, name |-> <<>>, year |-> <<>>,
              copyright_holders |-> <<>>]

\* NodeLicense.objects.get(name__iexact=name): the matching rows
NodeLicense_get(name) == {l \in NodeLicenses : Lower(l.name) = Lower(name)}

\* LicenseField._validate logging invalid when the license has required
\* properties and with_required_fields_regex does not match
LicenseField_validate_reporting(f) ==
    IF f.required /\ f.value = <<>>
    THEN [pv |-> f.parsed_value, log |-> <<"missing">>, exc |-> "none"]
    ELSE IF \/ ~no_required_fields_regex(f.value).matched
            \/ NodeLicense_get(no_required_fields_regex(f.value).name) = {}
    THEN [pv |-> f.parsed_value, log |-> <<"invalid">>, exc |-> "none"]
    ELSE IF (CHOOSE l \in NodeLicense_get(no_required_fields_regex(f.value).name) :
               TRUE).properties = <<>>
    THEN [pv |-> [t |-> "dict",
                  v |-> [name |-> no_required_fields_regex(f.value).name]],
          log |-> <<>>, exc |-> "none"]
    ELSE IF ~with_required_fields_regex(f.value).matched
    THEN [pv |-> f.parsed_value, log |-> <<"invalid">>, exc |-> "none"]
    ELSE [pv |-> [t |-> "dict",
                  v |-> [name |-> with_required_fields_regex(f.value).name,
                         required_field |->
                           [year |-> with_required_fields_regex(f.value).year,
                            copyright_holders |->
                              SplitStrip(with_required_fields_regex(f.value).copyright_holders, ",")]]],
          log |-> <<>>, exc |-> "none"]

LicenseField_validate(f) ==
    IF f.required /\ f.value = <<>>
    THEN ValidateResult(f.parsed_value, <<"missing">>, "none")
    ELSE LET license_name_match == no_required_fields_regex(f.value)
             found == NodeLicense_get(license_name_match.name)
         IN  IF ~license_name_match.matched
             THEN ValidateResult(f.parsed_value, <<"invalid">>, "none")
             ELSE IF found = {}
             THEN ValidateResult(f.parsed_value, <<"invalid">>, "none")
             ELSE LET node_license == CHOOSE l \in found : TRUE
                      match == with_required_fields_regex(f.value)
                  IN  IF node_license.properties # <<>>
                      THEN IF match.matched
                           THEN ValidateResult(
                                  PyDict([name |-> match.name,
                                          required_field |->
                                            [year |-> match.year,
                                             copyright_holders |->
                                               SplitStrip(match.copyright_holders, ",")]]),
                                  <<>>, "none")
                           ELSE ValidateResult(PyNone, <<>>, "none")
                      ELSE ValidateResult(
                             PyDict([name |-> license_name_match.name]), <<>>, "none")

CategoryField_validate(f) ==
    IF f.value \in DOMAIN NODE_CATEGORY_MAP
    THEN ValidateResult(PyStr(NODE_CATEGORY_MAP[f.value]), <<>>, "none")
    ELSE ValidateResult(f.parsed_value, <<"invalid">>, "none")

\* Model.objects.filter(<column>__in=names).values_list(<column>, flat=True)
FilterIn(column, names) ==
    LET wanted(x) == \E i \in 1..Len(names) : names[i] = x
    IN  SelectSeq(column, wanted)

\* the set difference with the operands exchanged: set(b) - set(a)
ListDiff_exchanged(a, b) == {b[i] : i \in 1..Len(b)} \ {a[i] : i \in 1..Len(a)}

\* set(a) - set(b) of two lists
ListDiff(a, b) == {a[i] : i \in 1..Len(a)} \ {b[i] : i \in 1..Len(b)}

SubjectsField_validate(f) ==
    LET subjects == SplitStrip(f.value, ";")
        valid_subjects == FilterIn(SubjectTexts, subjects)
        invalid_subjects == ListDiff(subjects, valid_subjects)
    IN  IF invalid_subjects # {}
        THEN ValidateResult(f.parsed_value, <<"invalid">>, "none")
        ELSE ValidateResult(PyList(valid_subjects), <<>>, "none")

InstitutionsField_validate(f) ==
    LET institutions == SplitStrip(f.value, ";")
        valid_institutions == FilterIn(InstitutionNames, institutions)
        invalid_institutions == ListDiff(institutions, valid_institutions)
    IN  IF invalid_institutions # {}
        THEN ValidateResult(f.parsed_value, <<"invalid">>, "none")
        ELSE ValidateResult(PyList(valid_institutions), <<>>, "none")

\* ProjectIDField._validate without the lookup: every value is echoed
ProjectIDField_validate_unchecked(f) ==
    [pv |-> [t |-> "str", v |-> f.value], log |-> <<>>, exc |-> "none"]

ProjectIDField_validate(f) ==
    IF f.value \in ProjectGuids
    THEN ValidateResult(PyStr(f.value), <<>>, "none")
    ELSE ValidateResult(f.parsed_value, <<"invalid">>, "none")

\* the _validate of the field's class
Field_validate(f) ==
    CASE f.cls = "RegistrationResponseField" -> RegistrationResponseField_validate(f)
      [] f.cls = "MetadataField"     -> MetadataField_validate(f)
      [] f.cls = "ContributorField"  -> ContributorField_validate(f)
      [] f.cls = "LicenseField"      -> LicenseField_validate(f)
      [] f.cls = "CategoryField"     -> CategoryField_validate(f)
      [] f.cls = "SubjectsField"     -> SubjectsField_validate(f)
      [] f.cls = "InstitutionsField" -> InstitutionsField_validate(f)
      [] f.cls = "ProjectIDField"    -> ProjectIDField_validate(f)

\* parse() after _validate has returned r (or raised r.exc): None is
\* returned as ''
ParseResult(f, r) ==
    [field |-> [f EXCEPT !.parsed_value = r.pv],
     log   |-> r.log,
     exc   |-> r.exc,
     ret   |-> IF r.exc # "none" THEN PyNone
               ELSE IF r.pv # PyNone THEN r.pv ELSE PyStr(<<>>)]

\* parse(): [field, log, exc, ret]; _validate runs only while _parsed_value
\* is None
Field_parse(f) ==
    ParseResult(f, IF f.parsed_value = PyNone
                   THEN Field_validate(f)
                   ELSE ValidateResult(f.parsed_value, <<>>, "none"))

(***************************************************************************)
(* Fixed metadata fields                                                   *)
(***************************************************************************)

H_title == <<"t","i","t","l","e">>

H_description == <<"d","e","s","c","r","i","p","t","i","o","n">>

H_admin == <<"a","d","m","i","n">>

H_read_write == <<"r","e","a","d","-","w","r","i","t","e">>

H_read_only == <<"r","e","a","d","-","o","n","l","y">>

H_bibliographic == <<"b","i","b","l","i","o","g","r","a","p","h","i","c"," ","c","o","n","t","r","i","b","u","t","o","r","s">>

H_category == <<"c","a","t","e","g","o","r","y">>

H_institutions == <<"a","f","f","i","l","i","a","t","e","d"," ","i","n","s","t","i","t","u","t","i","o","n","s">>

H_license == <<"l","i","c","e","n","s","e">>

H_subjects == <<"s","u","b","j","e","c","t","s">>

H_tags == <<"t","a","g","s">>

H_project_guid == <<"p","r","o","j","e","c","t"," ","g","u","i","d">>

H_external_id == <<"e","x","t","e","r","n","a","l"," ","i","d">>

\* METADATA_FIELDS: header -> rule; a rule without 'required' has no such key
METADATA_FIELDS ==
    (H_title :> [format |-> "string", required |-> TRUE])
    @@ (H_description :> [format |-> "string", required |-> TRUE])
    @@ (H_admin :> [format |-> "list", required |-> TRUE])
    @@ (H_read_write :> [format |-> "list"])
    @@ (H_read_only :> [format |-> "list"])
    @@ (H_bibliographic :> [format |-> "list"])
    @@ (H_category :> [format |-> "string"])
    @@ (H_institutions :> [format |-> "list"])
    @@ (H_license :> [format |-> "object", required |-> TRUE])
    @@ (H_subjects :> [format |-> "list", required |-> TRUE])
    @@ (H_tags :> [format |-> "list"])
    @@ (H_project_guid :> [format |-> "string"])
    @@ (H_external_id :> [format |-> "string"])

\* the keys of METADATA_FIELDS in the order the dict literal lists them
METADATA_ORDER ==
    <<H_title, H_description, H_admin, H_read_write, H_read_only,
      H_bibliographic, H_category, H_institutions, H_license, H_subjects,
      H_tags, H_project_guid, H_external_id>>

CONTRIBUTOR_METADATA_FIELDS ==
    {H_admin, H_read_write, H_read_only, H_bibliographic}

(***************************************************************************)
(* Cell                                                                    *)
(***************************************************************************)

\* RegistrationResponseField.__init__
RegistrationResponseField(value, validations) ==
    [cls          |-> "RegistrationResponseField",
     required     |-> Get(validations, "required", FALSE),
     type         |-> Get(validations, "type", "string"),
     format       |-> Get(validations, "format", "None"),
     options      |-> Get(validations, "options", <<>>),
     value        |-> Strip(value),
     parsed_value |-> PyNone]

\* MetadataField.__init__, inherited by the six metadata subclasses
MetadataField(cls, value, validations) ==
    [cls          |-> cls,
     format       |-> Get(validations, "format", "string"),
     required     |-> Get(validations, "required", FALSE),
     value        |-> Strip(value),
     parsed_value |-> PyNone]

\* field_instance_for without the branch of 'project guid'
field_instance_for_no_project(name, value, validations) ==
    IF name \in DOMAIN METADATA_FIELDS
    THEN IF name \in CONTRIBUTOR_METADATA_FIELDS
         THEN MetadataField("ContributorField", value, validations)
         ELSE IF name = H_license
         THEN MetadataField("LicenseField", value, validations)
         ELSE IF name = H_category
         THEN MetadataField("CategoryField", value, validations)
         ELSE IF name = H_subjects
         THEN MetadataField("SubjectsField", value, validations)
         ELSE IF name = H_institutions
         THEN MetadataField("InstitutionsField", value, validations)
         ELSE MetadataField("MetadataField", value, validations)
    ELSE RegistrationResponseField(value, validations)

\* Cell.field_instance_for
field_instance_for(name, value, validations) ==
    IF name \in DOMAIN METADATA_FIELDS
    THEN IF name \in CONTRIBUTOR_METADATA_FIELDS
         THEN MetadataField("ContributorField", value, validations)
         ELSE IF name = H_license
         THEN MetadataField("LicenseField", value, validations)
         ELSE IF name = H_category
         THEN MetadataField("CategoryField", value, validations)
         ELSE IF name = H_subjects
         THEN MetadataField("SubjectsField", value, validations)
         ELSE IF name = H_institutions
         THEN MetadataField("InstitutionsField", value, validations)
         ELSE IF name = H_project_guid
         THEN MetadataField("ProjectIDField", value, validations)
         ELSE MetadataField("MetadataField", value, validations)
    ELSE RegistrationResponseField(value, validations)

\* Cell.__init__ keeping the trimmed value as the cell's value
Cell_trimmed(header, value, validations, row_index, column_index) ==
    [header       |-> header,
     value        |-> Strip(value),
     validations  |-> validations,
     field        |-> field_instance_for(Lower(header), value, validations),
     row_index    |-> row_index,
     column_index |-> column_index]

\* Cell.__init__; row_index and column_index are the keyword arguments bound
\* into the cell's log_error partial
Cell(header, value, validations, row_index, column_index) ==
    [header       |-> header,
     value        |-> value,
     validations  |-> validations,
     field        |-> field_instance_for(Lower(header), value, validations),
     row_index    |-> row_index,
     column_index |-> column_index]

\* Cell.is_metadata
is_metadata(cell) == cell.header \in DOMAIN METADATA_FIELDS

\* BulkRegistrationUpload.log_error: the record appended for one call
ErrorRecord(cell, what) ==
    [header       |-> cell.header,
     column_index |-> cell.column_index,
     row_index    |-> cell.row_index,
     missing      |-> (what = "missing"),
     invalid      |-> (what = "invalid")]

\* the records one parse of the cell appends, in order
CellErrors(cell, log) == [i \in 1..Len(log) |-> ErrorRecord(cell, log[i])]


(***************************************************************************)
(* Row                                                                     *)
(***************************************************************************)

\* csv.DictReader: dict(zip(fieldnames, line)) as the list of its items; a
\* repeated fieldname keeps its first position and its last value
DictRow(fieldnames, line) ==
    LET first == {i \in 1..Len(fieldnames) :
                     \A j \in 1..(i - 1) : fieldnames[j] # fieldnames[i]}
        lastOf(i) == SetMax({j \in 1..Len(fieldnames) : fieldnames[j] = fieldnames[i]})
        keep(i) == i \in first
        idx == SelectSeq([i \in 1..Len(fieldnames) |-> i], keep)
    IN  [k \in 1..Len(idx) |-> [header |-> fieldnames[idx[k]],
                                value  |-> line[lastOf(idx[k])]]]

\* Row.__init__ raises KeyError when a header has no rule
RowKeyError(row_dict, validations) ==
    \E k \in 1..Len(row_dict) : Lower(row_dict[k].header) \notin DOMAIN validations

\* Row.__init__: one Cell per item of row_dict, column_index from enumerate
Row(row_dict, validations, row_index) ==
    [cells |-> [k \in 1..Len(row_dict) |->
                  Cell(Lower(row_dict[k].header), row_dict[k].value,
                       validations[Lower(row_dict[k].header)], row_index, k - 1)]]

\* ','.join(list)
RECURSIVE Join(_, _)
Join(list, sep) ==
    IF list = <<>> THEN <<>>
    ELSE IF Len(list) = 1 THEN list[1]
    ELSE list[1] \o <<sep>> \o Join(Tail(list), sep)

\* Row.get_raw_value
get_raw_value(row) == Join([k \in 1..Len(row.cells) |-> row.cells[k].value], ",")

(***************************************************************************)
(* Schema registry                                                         *)
(***************************************************************************)

\* get_question_validations with the type of a question that lists none
\* left empty
get_question_validations_untyped(question) ==
    [required |-> Get(question, "required", FALSE),
     format   |-> Get(question, "format", ""),
     type     |-> Get(question, "type", ""),
     options  |-> Get(question, "options", <<>>)]

\* the lambda get_question_validations
get_question_validations(question) ==
    [required |-> Get(question, "required", FALSE),
     format   |-> Get(question, "format", ""),
     type     |-> Get(question, "type", "string"),
     options  |-> Get(question, "options", <<>>)]

\* the assignments one question makes, in order: its own, then its properties'
QuestionEntries(question) ==
    <<[key |-> question.qid, rule |-> get_question_validations(question)]>>
    \o (IF "properties" \in DOMAIN question
        THEN [k \in 1..Len(question.properties) |->
                [key  |-> question.qid \o question.properties[k].id,
                 rule |-> get_question_validations(question.properties[k])]]
        ELSE <<>>)

RECURSIVE QuestionsEntries(_)
QuestionsEntries(questions) ==
    IF questions = <<>> THEN <<>>
    ELSE QuestionEntries(Head(questions)) \o QuestionsEntries(Tail(questions))

RECURSIVE PagesEntries(_)
PagesEntries(pages) ==
    IF pages = <<>> THEN <<>>
    ELSE QuestionsEntries(Head(pages).questions) \o PagesEntries(Tail(pages))

\* a dict built by assigning the entries in order: the last assignment wins
RECURSIVE DictOf(_)
DictOf(entries) ==
    IF entries = <<>> THEN <<>>
    ELSE LET n == Len(entries)
         IN  (entries[n].key :> entries[n].rule) @@ DictOf(SubSeq(entries, 1, n - 1))

\* BulkRegistrationUpload.get_questions_validations
get_questions_validations(registration_schema) ==
    DictOf(PagesEntries(registration_schema.schema.pages))

\* the merge with the operands exchanged: the rule of the schema wins
MergeValidations_schema_wins(schema_questions) == schema_questions @@ METADATA_FIELDS

\* {**schema_questions, **METADATA_FIELDS}
MergeValidations(schema_questions) == METADATA_FIELDS @@ schema_questions


(***************************************************************************)
(* External collaborators: registration providers and their schemas        *)
(***************************************************************************)

S_s1 == <<"s","1">>

S_s2 == <<"s","2">>

S_q1 == <<"q","1">>

S_q2 == <<"q","2">>

S_q3 == <<"q","3">>

S_q4 == <<"q","4">>

S_q4x == <<"q","4","x">>

S_x == <<"x">>

S_a == <<"a">>

S_b == <<"b">>

S_s3 == <<"s","3">>

S_ti == <<"t","i">>

S_tle == <<"t","l","e">>

S_s4 == <<"s","4">>

S_Q5 == <<"Q","5">>

\* RegistrationSchema rows by _id; a question lists only the keys it has.
\* In s3 the nested qid "ti" + "tle" and the qid "tags" are names of fixed
\* metadata fields.  In s4 the qid is written with a capital letter.
RegistrationSchemas ==
    (S_s1 :> [schema |-> [pages |-> <<
        [questions |-> <<
            [qid |-> S_q1, type |-> "string", required |-> TRUE],
            [qid |-> S_q2, type |-> "choose", format |-> "singleselect",
             options |-> <<S_a, S_b>>] >>] >>]])
    @@ (S_s2 :> [schema |-> [pages |-> <<
        [questions |-> <<
            [qid |-> S_q3, type |-> "choose", format |-> "multiselect",
             options |-> <<S_a, S_b>>] >>],
        [questions |-> <<
            [qid |-> S_q4,
             properties |-> << [id |-> S_x, required |-> TRUE] >>] >>] >>]])
    @@ (S_s3 :> [schema |-> [pages |-> <<
        [questions |-> <<
            [qid |-> S_ti,
             properties |-> << [id |-> S_tle, type |-> "choose",
                                format |-> "singleselect",
                                options |-> <<S_a>>] >>],
            [qid |-> H_tags, type |-> "choose", format |-> "singleselect",
             options |-> <<S_a>>, required |-> TRUE] >>] >>]])
    @@ (S_s4 :> [schema |-> [pages |-> <<
        [questions |-> <<
            [qid |-> S_Q5, type |-> "string"] >>] >>]])

\* RegistrationProvider rows by _id, each with the _ids of its schemas
RegistrationProviders == ("osf" :> {S_s1, S_s3}) @@ ("egap" :> {S_s2, S_s4})

(***************************************************************************)
(* BulkRegistrationUpload                                                  *)
(***************************************************************************)

NoException == [type |-> "none", detail |-> ""]

Exception(type, detail) == [type |-> type, detail |-> detail]

\* SchemaLookup looking the schema up among all schemas, not the provider's
SchemaLookup_any_provider(provider_id, schema_id, load) ==
    IF schema_id = <<>>
    THEN [type |-> "AttributeError", detail |-> "registration_schema"]
    ELSE IF provider_id \notin DOMAIN RegistrationProviders
    THEN [type |-> "AttributeError", detail |-> "schemas"]
    ELSE IF schema_id \notin UNION {RegistrationProviders[p] :
                                      p \in DOMAIN RegistrationProviders}
    THEN [type |-> "NotFound", detail |-> "Schema with id was not found"]
    ELSE [type |-> "none", detail |-> ""]

\* the try block of __init__: RegistrationProvider.load and schemas.get.
\* load is what RegistrationProvider.load does for an id that names no
\* provider: it returns None, or it raises DoesNotExist; then
\* None.schemas, or NotFound(...).format, raises AttributeError
SchemaLookup(provider_id, schema_id, load) ==
    IF schema_id = <<>>
    THEN Exception("AttributeError", "registration_schema")
    ELSE IF provider_id \notin DOMAIN RegistrationProviders
    THEN IF load = "None"
         THEN Exception("AttributeError", "schemas")
         ELSE Exception("AttributeError", "format")
    ELSE IF schema_id \notin RegistrationProviders[provider_id]
    THEN Exception("NotFound", "Schema with id was not found")
    ELSE NoException

\* BuildRows with the rows numbered from the schema id line
BuildRows_from_schema_line(fieldnames, lines, validations) ==
    [i \in 1..(Len(lines) - 1) |->
        Row(DictRow(fieldnames, lines[i + 1]), validations, i + 1)]

\* the rows list comprehension: row_index is reader.line_num, the header
\* line being line 1 and the schema id line being line 2
BuildRows(fieldnames, lines, validations) ==
    [i \in 1..(Len(lines) - 1) |->
        Row(DictRow(fieldnames, lines[i + 1]), validations, i + 2)]

\* BulkRegistrationUpload.__init__: [exc, headers, schema_id, validations, rows]
BulkRegistrationUpload(csv, provider_id, load) ==
    LET fieldnames  == csv.fieldnames
        hdrs        == [i \in 1..Len(fieldnames) |-> Lower(fieldnames[i])]
        failed(e)   == [exc |-> e, headers |-> <<>>, schema_id |-> <<>>,
                        validations |-> <<>>, rows |-> <<>>]
    IN  IF csv.lines = <<>> THEN failed(Exception("StopIteration", ""))
        ELSE
        LET schema_id_row == DictRow(fieldnames, csv.lines[1])
            sid    == (CHOOSE k \in 1..Len(schema_id_row) :
                          schema_id_row[k].header = fieldnames[1])
            id     == schema_id_row[sid].value
            lookup == SchemaLookup(provider_id, id, load)
        IN  IF lookup # NoException THEN failed(lookup)
            ELSE
            LET vals == MergeValidations(
                          get_questions_validations(RegistrationSchemas[id]))
            IN  IF /\ Len(csv.lines) > 1
                   /\ RowKeyError(DictRow(fieldnames, csv.lines[2]), vals)
                THEN failed(Exception("KeyError", "validations"))
                ELSE [exc |-> NoException, headers |-> hdrs, schema_id |-> id,
                      validations |-> vals,
                      rows |-> BuildRows(fieldnames, csv.lines, vals)]

\* HeaderDiff with the operands of the set difference exchanged
HeaderDiff_exchanged(vals, hdrs) == {hdrs[i] : i \in 1..Len(hdrs)} \ (DOMAIN vals)

\* validate_csv_header_list: set(expected_headers) - set(actual_headers)
HeaderDiff(vals, hdrs) == (DOMAIN vals) \ {hdrs[i] : i \in 1..Len(hdrs)}

\* the state of an operation after the parse() of the cell at position p
\* has returned r.  st is [rows, errors, exc, visited, rets]: visited lists
\* the positions parse() was called on and rets what each call returned.
AfterParse(st, p, cell, r) ==
    [rows    |-> [st.rows EXCEPT ![p[1]].cells[p[2]].field = r.field],
     errors  |-> st.errors \o CellErrors(cell, r.log),
     exc     |-> IF r.exc = "none" THEN NoException
                 ELSE Exception(r.exc, "parse_value"),
     visited |-> Append(st.visited, p),
     rets    |-> Append(st.rets, r.ret)]

ParseCell(st, p, cell) == AfterParse(st, p, cell, Field_parse(cell.field))

\* The parse() calls of one operation, made in the order of todo (a list of
\* <<row, cell>> positions) until one raises.
RECURSIVE ParseCells(_, _)
ParseCells(st, todo) ==
    IF todo = <<>> \/ st.exc # NoException THEN st
    ELSE ParseCells(ParseCell(st, Head(todo),
                              st.rows[Head(todo)[1]].cells[Head(todo)[2]]),
                    Tail(todo))

ParseStart(rs, errs) ==
    [rows |-> rs, errors |-> errs, exc |-> NoException,
     visited |-> <<>>, rets |-> <<>>]

\* Row.validate: the cells of row r in column order
RowValidateOrder(rs, r) == [k \in 1..Len(rs[r].cells) |-> <<r, k>>]

RECURSIVE Flatten(_)
Flatten(lists) ==
    IF lists = <<>> THEN <<>> ELSE Head(lists) \o Flatten(Tail(lists))

\* BulkRegistrationUpload.validate after the header check: row by row
ValidateOrder(rs) == Flatten([r \in 1..Len(rs) |-> RowValidateOrder(rs, r)])

\* Row.get_parsed_value: get_metadata parses the metadata cells, then
\* get_registration_responses parses the others
RowParsedOrder(rs, r) ==
    LET all == RowValidateOrder(rs, r)
        meta(p) == is_metadata(rs[p[1]].cells[p[2]])
        resp(p) == ~is_metadata(rs[p[1]].cells[p[2]])
    IN  SelectSeq(all, meta) \o SelectSeq(all, resp)

\* BulkRegistrationUpload.get_parsed: row by row
GetParsedOrder(rs) == Flatten([r \in 1..Len(rs) |-> RowParsedOrder(rs, r)])


\* what parse() returns for a cell whose field has been parsed
ParsedOf(cell) ==
    IF cell.field.parsed_value # PyNone THEN cell.field.parsed_value
    ELSE PyStr(<<>>)

\* a dict updated with {cell.header: parse()} for each cell in order
RECURSIVE UpdateAll(_)
UpdateAll(cells) ==
    IF cells = <<>> THEN <<>>
    ELSE LET n == Len(cells)
         IN  (cells[n].header :> ParsedOf(cells[n])) @@ UpdateAll(SubSeq(cells, 1, n - 1))

\* Row.get_metadata / Row.get_registration_responses / Row.get_parsed_value,
\* of a row whose cells have been parsed
get_metadata(row) == UpdateAll(SelectSeq(row.cells, is_metadata))

get_registration_responses(row) ==
    LET other(cell) == ~is_metadata(cell)
    IN  UpdateAll(SelectSeq(row.cells, other))

get_parsed_value(row) ==
    [metadata |-> get_metadata(row),
     registration_responses |-> get_registration_responses(row)]

\* BulkRegistrationUpload.get_parsed, of rows whose cells have been parsed
get_parsed(id, rs) ==
    [schema_id |-> id,
     registrations |-> [r \in 1..Len(rs) |->
                          [csv_raw |-> get_raw_value(rs[r]),
                           csv_parsed |-> get_parsed_value(rs[r])]]]

(***************************************************************************)
(* State                                                                   *)
(***************************************************************************)

VARIABLES
    input,            \* the arguments of the constructor: [csv, provider_id]
    status,           \* "new", "constructed", or "failed" (__init__ raised)
    headers,          \* self.headers
    schema_id,        \* self.schema_id
    validations,      \* self.validations
    errors,           \* self.errors
    rows,             \* self.rows
    op,               \* the last call made on the upload
    raised,           \* the exception the last call raised, or NoException
    ret,              \* what the last call returned
    visited,          \* the <<row, cell>> positions the last call parsed
    header_validated  \* validate_csv_header_list has returned without raising

vars == <<input, status, headers, schema_id, validations, errors, rows,
          op, raised, ret, visited, header_validated>>

\* bound on the length of self.errors
MaxErrors == 6

\* BulkRegistrationUpload.is_valid
is_valid == Len(errors) = 0

\* the upload after __init__ has returned u (or raised u.exc)
Constructed(u) ==
    /\ status' = IF u.exc = NoException THEN "constructed" ELSE "failed"
    /\ raised' = u.exc
    /\ headers' = u.headers
    /\ schema_id' = u.schema_id
    /\ validations' = u.validations
    /\ rows' = u.rows
    /\ errors' = <<>>
    /\ op' = "__init__"
    /\ ret' = PyNone
    /\ visited' = <<>>
    /\ UNCHANGED <<input, header_validated>>

\* BulkRegistrationUpload(bulk_upload_csv, provider_id)
Construct ==
    /\ status = "new"
    /\ \E load \in {"None", "DoesNotExist"} :
         Constructed(BulkRegistrationUpload(input.csv, input.provider_id, load))

\* the upload after an operation has made its parse() calls and reached st
Parsed(name, st, result(_)) ==
    /\ Len(st.errors) <= MaxErrors
    /\ rows' = st.rows
    /\ errors' = st.errors
    /\ raised' = st.exc
    /\ visited' = st.visited
    /\ ret' = IF st.exc = NoException THEN result(st) ELSE PyNone
    /\ op' = name
    /\ UNCHANGED <<input, status, headers, schema_id, validations>>

\* the effect of an operation that parses the cells of todo in order
Parses(name, todo, result(_)) ==
    Parsed(name, ParseCells(ParseStart(rows, errors), todo), result)

ReturnsNone(st) == PyNone

\* validate without the call of validate_csv_header_list
Validate_no_header_check ==
    /\ status = "constructed"
    /\ Parses("validate", ValidateOrder(rows), ReturnsNone)
    /\ UNCHANGED header_validated

\* BulkRegistrationUpload.validate
Validate ==
    /\ status = "constructed"
    /\ IF HeaderDiff(validations, headers) # {}
       THEN /\ raised' = Exception("ValidationError", "Invalid csv headers")
            /\ op' = "validate"
            /\ ret' = PyNone
            /\ visited' = <<>>
            /\ UNCHANGED <<input, status, headers, schema_id, validations,
                           errors, rows, header_validated>>
       ELSE /\ header_validated' = TRUE
            /\ Parses("validate", ValidateOrder(rows), ReturnsNone)

ReturnsParsed(st) == PyDict(get_parsed(schema_id, st.rows))

\* BulkRegistrationUpload.get_parsed
GetParsed ==
    /\ status = "constructed"
    /\ Parses("get_parsed", GetParsedOrder(rows), ReturnsParsed)
    /\ UNCHANGED header_validated

\* Row.validate of row r
RowValidate(r) ==
    /\ status = "constructed"
    /\ Parses("Row.validate", RowValidateOrder(rows, r), ReturnsNone)
    /\ UNCHANGED header_validated

\* Row.get_parsed_value of row r
RowGetParsedValue(r) ==
    /\ status = "constructed"
    /\ LET result(st) == PyDict(get_parsed_value(st.rows[r]))
       IN  Parses("Row.get_parsed_value", RowParsedOrder(rows, r), result)
    /\ UNCHANGED header_validated

\* an operation that only reads
Reads(name, value) ==
    /\ op' = name
    /\ ret' = value
    /\ raised' = NoException
    /\ visited' = <<>>
    /\ UNCHANGED <<input, status, headers, schema_id, validations, errors,
                   rows, header_validated>>

\* Row.get_raw_value of row r
RowGetRawValue(r) ==
    /\ status = "constructed"
    /\ Reads("Row.get_raw_value", PyStr(get_raw_value(rows[r])))

\* Cell.validate of cell c of row r
CellValidate(r, c) ==
    /\ status = "constructed"
    /\ Parses("Cell.validate", <<<<r, c>>>>, ReturnsNone)
    /\ UNCHANGED header_validated

\* Cell.get_parsed_value of cell c of row r
CellGetParsedValue(r, c) ==
    /\ status = "constructed"
    /\ LET result(st) ==
             PyDict(st.rows[r].cells[c].header :> ParsedOf(st.rows[r].cells[c]))
       IN  Parses("Cell.get_parsed_value", <<<<r, c>>>>, result)
    /\ UNCHANGED header_validated

\* Cell.get_raw_value of cell c of row r
CellGetRawValue(r, c) ==
    /\ status = "constructed"
    /\ Reads("Cell.get_raw_value", PyStr(rows[r].cells[c].value))


(***************************************************************************)
(* Documents: the inputs of the constructor                                *)
(***************************************************************************)

V_empty == <<>>

V_space == <<" ">>

V_T == <<"T">>

V_T_padded == <<" ","T"," ">>

V_D == <<"D">>

V_a_b == <<"a",";","b">>

V_c == <<"c">>

V_c_a == <<"c",";","a">>

V_a_padded == <<" ","a"," ">>

V_a_lead == <<" ","a">>

V_Al == <<"A","l","<","a","@","b",">">>

V_bob == <<"b","o","b">>

V_B_o == <<"B","-","o"," ","<",">">>

V_noname == <<"<","a","@","b",">">>

V_Al_tail == <<"A","l","<","a",">","z">>

V_GPL == <<"G","P","L">>

V_mit == <<"m","i","t">>

V_MIT_full == <<"M","I","T",";"," ","2","0","2","0",";","A","l">>

V_BSD_full == <<"B","S","D",";"," ","2","0","2","0",";","A","l",","," ","B","o">>

V_BSD_spaced == <<"B","S","D",";"," ","2","0","2","0",";"," ","A","l",","," ","B","o">>

V_CC_BY_full == <<"C","C","-","B","Y",";"," ","2","0","2","0",";"," ","A","l",","," ","B","o">>

V_BSD_nospace == <<"B","S","D",";","2","0","2","0",";","A","l">>

V_BSD_noholder == <<"B","S","D",";"," ","2","0","2","0",";">>

V_dash == <<"-","x">>

V_bogus == <<"b","o","g","u","s">>

V_data_lead == <<" ","d","a","t","a">>

V_guid_padded == <<" ","a","b","1","2"," ">>

V_zz == <<"z","z">>

V_Nope == <<"N","o","p","e">>

V_Psy_lead == <<" ","P","s","y">>

V_s9 == <<"s","9">>

V_a_b_c == <<"a",";"," ","b",";","c">>

H_Title == <<"T","i","t","l","e">>

H_zz == <<"z","z">>

\* bound on the number of registration rows of a generated document
MaxRows == 2

\* bound on the number of ';'-separated tokens of a generated cell
MaxTokens == 2

\* the qids of a schema in the order the schema document lists them
SchemaKeys(sid) ==
    LET entries == PagesEntries(RegistrationSchemas[sid].schema.pages)
    IN  [k \in 1..Len(entries) |-> entries[k].key]

\* the qids of a schema that are not names of fixed metadata fields
QuestionKeys(sid) ==
    LET other(k) == k \notin DOMAIN METADATA_FIELDS
    IN  SelectSeq(SchemaKeys(sid), other)

\* a header line naming every expected header: "Title" as typed by a user,
\* the first question, the other metadata fields, the other questions
FullFieldnames(sid) ==
    <<H_Title, Head(QuestionKeys(sid))>> \o Tail(METADATA_ORDER)
    \o Tail(QuestionKeys(sid))

\* a cell value for each header that parses to a value without an error
\* (q3, a multiselect question, has none)
ValidValue ==
    (H_title :> V_T) @@ (H_description :> V_D) @@ (H_admin :> V_Al)
    @@ (H_read_write :> V_empty) @@ (H_read_only :> V_empty)
    @@ (H_bibliographic :> V_Al) @@ (H_category :> S_data)
    @@ (H_institutions :> S_uva) @@ (H_license :> S_MIT)
    @@ (H_subjects :> S_psy) @@ (H_tags :> V_a_b)
    @@ (H_project_guid :> S_guid) @@ (H_external_id :> V_empty)
    @@ (S_q1 :> V_T) @@ (S_q2 :> S_a) @@ (S_q3 :> S_a) @@ (S_q4 :> V_empty)
    @@ (S_q4x :> V_T) @@ (H_zz :> V_zz) @@ (S_ti :> V_T)
    @@ (Lower(S_Q5) :> V_T)

\* the cells a row of a full document may hold instead of the valid value
Perturbations ==
    { [header |-> H_title, value |-> V_empty],
      [header |-> H_category, value |-> V_bogus],
      [header |-> H_license, value |-> S_BSD],
      [header |-> H_subjects, value |-> V_empty],
      [header |-> H_project_guid, value |-> V_empty],
      [header |-> S_q1, value |-> V_space],
      [header |-> S_q2, value |-> V_c],
      [header |-> S_q3, value |-> V_c],
      [header |-> S_q3, value |-> V_c_a],
      [header |-> S_q4x, value |-> V_empty] }

ValidLine(fieldnames) ==
    [i \in 1..Len(fieldnames) |-> ValidValue[Lower(fieldnames[i])]]

PerturbedLine(fieldnames, p) ==
    [i \in 1..Len(fieldnames) |->
        IF Lower(fieldnames[i]) = p.header THEN p.value
        ELSE ValidValue[Lower(fieldnames[i])]]

\* the registration lines of the generated documents
Lines(fieldnames) ==
    {ValidLine(fieldnames)}
    \cup {PerturbedLine(fieldnames, p) :
            p \in {q \in Perturbations :
                     \E i \in 1..Len(fieldnames) : Lower(fieldnames[i]) = q.header}}

\* the schema id line: the id in column 0, text the engine ignores elsewhere
SchemaIdLine(fieldnames, id) ==
    [i \in 1..Len(fieldnames) |-> IF i = 1 THEN id ELSE V_zz]

Document(fieldnames, id, lines) ==
    [fieldnames |-> fieldnames, lines |-> <<SchemaIdLine(fieldnames, id)>> \o lines]

SeqsUpTo(S, n) == UNION {[1..k -> S] : k \in 0..n}

ProviderOf(sid) == CHOOSE p \in DOMAIN RegistrationProviders : sid \in RegistrationProviders[p]

\* documents naming every expected header of their schema
FullInputs ==
    UNION {
      {[csv |-> Document(FullFieldnames(sid), sid, lines),
        provider_id |-> ProviderOf(sid)] :
          lines \in SeqsUpTo(Lines(FullFieldnames(sid)), MaxRows)} :
      sid \in DOMAIN RegistrationSchemas}

Without(list, h) == LET other(x) == x # h IN SelectSeq(list, other)

\* documents of schema s1 that lack an expected header
MissingHeaderInputs ==
    UNION {
      {[csv |-> Document(Without(FullFieldnames(S_s1), h), S_s1, <<line>>),
        provider_id |-> "osf"] :
          line \in {ValidLine(Without(FullFieldnames(S_s1), h)),
                    PerturbedLine(Without(FullFieldnames(S_s1), h),
                                  [header |-> H_title, value |-> V_empty])}} :
      h \in {H_tags, S_q2}}

\* documents of schema s1 with a header that has no rule
UnknownHeaderInputs ==
    {[csv |-> Document(Append(FullFieldnames(S_s1), H_zz), S_s1, lines),
      provider_id |-> "osf"] :
        lines \in {<<>>, <<ValidLine(Append(FullFieldnames(S_s1), H_zz))>>}}

\* documents whose schema id or provider id may name nothing
LookupInputs ==
    {[csv |-> Document(FullFieldnames(S_s1), id, <<ValidLine(FullFieldnames(S_s1))>>),
      provider_id |-> pid] :
        id \in {S_s1, S_s2, V_s9, V_empty}, pid \in {"osf", "egap", "nope"}}

\* a document with a header line only
NoLineInputs ==
    {[csv |-> [fieldnames |-> FullFieldnames(S_s1), lines |-> <<>>],
      provider_id |-> "osf"]}

\* three registrations: a valid one, one without title, one whose category
\* is not in the category table
EndToEndInput ==
    [csv |-> Document(FullFieldnames(S_s1), S_s1,
               <<ValidLine(FullFieldnames(S_s1)),
                 PerturbedLine(FullFieldnames(S_s1),
                               [header |-> H_title, value |-> V_empty]),
                 PerturbedLine(FullFieldnames(S_s1),
                               [header |-> H_category, value |-> V_bogus])>>),
     provider_id |-> "osf"]

\* a document of schema s1 naming title twice, as "Title" and as "title":
\* two fieldnames of the reader, one lowercased header
DuplicateHeaderInputs ==
    {[csv |-> Document(Append(FullFieldnames(S_s1), H_title), S_s1,
                       <<ValidLine(Append(FullFieldnames(S_s1), H_title))>>),
      provider_id |-> "osf"]}

UploadInputs ==
    FullInputs \cup MissingHeaderInputs \cup UnknownHeaderInputs
    \cup LookupInputs \cup NoLineInputs \cup {EndToEndInput}
    \cup DuplicateHeaderInputs


\* the values of a ';'-separated cell with at most MaxTokens tokens
Joined(tokens) ==
    {Join(l, ";") : l \in UNION {[1..n -> tokens] : n \in 1..MaxTokens}}

\* the raw values tried for a cell under header h
CellValues(h) ==
    IF h \in CONTRIBUTOR_METADATA_FIELDS
    THEN Joined({V_Al, V_bob, V_B_o, V_noname, V_Al_tail, V_empty})
         \cup {V_space}
    ELSE IF h = H_license
    THEN {V_empty, V_space, S_MIT, V_mit, V_MIT_full, V_GPL, S_BSD, V_BSD_full,
          V_BSD_nospace, V_BSD_noholder, V_dash, V_BSD_spaced, V_CC_BY_full}
    ELSE IF h = H_category
    THEN {V_empty, V_space, S_data, V_data_lead, S_Data, V_bogus}
    ELSE IF h = H_subjects
    THEN Joined({S_psy, S_law, V_Nope, V_Psy_lead, V_empty}) \cup {V_space}
    ELSE IF h = H_institutions
    THEN Joined({S_uva, V_Nope, V_empty}) \cup {V_space}
    ELSE IF h = H_project_guid
    THEN {V_empty, V_space, S_guid, V_guid_padded, V_zz}
    ELSE IF h = H_tags
    THEN Joined({S_a, S_b, V_a_lead, V_empty}) \cup {V_space, V_a_b_c}
    ELSE IF h = S_q3
    THEN Joined({S_a, S_b, V_c, V_a_lead, V_empty}) \cup {V_space}
    ELSE IF h = S_q2
    THEN {V_empty, V_space, S_a, S_b, V_c, V_a_padded, V_a_b}
    ELSE {V_empty, V_space, V_T, V_T_padded, V_a_b}

\* documents with one column and one registration, for every header of
\* every schema and every raw value tried for it
CellInputs ==
    UNION {
      UNION {
        {[csv |-> Document(<<h>>, sid, <<<<v>>>>), provider_id |-> ProviderOf(sid)] :
            v \in CellValues(h)} :
        h \in DOMAIN MergeValidations(
                       get_questions_validations(RegistrationSchemas[sid]))} :
      sid \in DOMAIN RegistrationSchemas}

(***************************************************************************)
(* Specifications                                                          *)
(***************************************************************************)

Fresh ==
    /\ status = "new"
    /\ headers = <<>>
    /\ schema_id = <<>>
    /\ validations = <<>>
    /\ errors = <<>>
    /\ rows = <<>>
    /\ op = "none"
    /\ raised = NoException
    /\ ret = PyNone
    /\ visited = <<>>
    /\ header_validated = FALSE

Init == input \in UploadInputs /\ Fresh

Next ==
    \/ Construct
    \/ Validate
    \/ GetParsed

\* an upload driven through the operations of BulkRegistrationUpload
Spec == Init /\ [][Next]_vars

\* documents with at most one registration, and the three-registration one
RowInputs ==
    {i \in FullInputs : Len(i.csv.lines) <= 2} \cup {EndToEndInput}

InitRow == input \in RowInputs /\ Fresh

NextRow ==
    \/ Construct
    \/ \E r \in 1..Len(rows) : RowValidate(r)
    \/ \E r \in 1..Len(rows) : RowGetParsedValue(r)
    \/ \E r \in 1..Len(rows) : RowGetRawValue(r)

\* an upload driven through the operations of its rows
SpecRow == InitRow /\ [][NextRow]_vars

InitCell == input \in CellInputs /\ Fresh

NextCell ==
    \/ Construct
    \/ \E r \in 1..Len(rows) : \E c \in 1..Len(rows[r].cells) : CellValidate(r, c)
    \/ \E r \in 1..Len(rows) : \E c \in 1..Len(rows[r].cells) : CellGetParsedValue(r, c)
    \/ \E r \in 1..Len(rows) : \E c \in 1..Len(rows[r].cells) : CellGetRawValue(r, c)

\* one cell driven through the operations of Cell
SpecCell == InitCell /\ [][NextCell]_vars


\* cell values with leading or trailing spaces that parse to a value
PaddedValue ==
    (H_title :> V_T_padded) @@ (H_category :> V_data_lead)
    @@ (H_project_guid :> V_guid_padded) @@ (S_q2 :> V_a_padded)

PaddedLine(fieldnames) ==
    [i \in 1..Len(fieldnames) |->
        IF Lower(fieldnames[i]) \in DOMAIN PaddedValue
        THEN PaddedValue[Lower(fieldnames[i])]
        ELSE ValidValue[Lower(fieldnames[i])]]

\* full documents with padded cells: one registration of schema s1, one of
\* schema s2, and two registrations of schema s1 and of schema s2, the
\* second without title
RawInputs ==
    {[csv |-> Document(FullFieldnames(sid), sid, <<PaddedLine(FullFieldnames(sid))>>),
      provider_id |-> ProviderOf(sid)] : sid \in {S_s1, S_s2}}
    \cup {[csv |-> Document(FullFieldnames(sid), sid,
                     <<PaddedLine(FullFieldnames(sid)),
                       PerturbedLine(FullFieldnames(sid),
                                     [header |-> H_title, value |-> V_empty])>>),
            provider_id |-> ProviderOf(sid)] : sid \in {S_s1, S_s2}}

InitRaw == input \in RawInputs /\ Fresh

\* bound on the cells of a row the Cell operations are called on: the
\* first MaxCellOpColumns
MaxCellOpColumns == 2

CellOpColumns(r) ==
    1..(IF Len(rows[r].cells) < MaxCellOpColumns
        THEN Len(rows[r].cells) ELSE MaxCellOpColumns)

NextRaw ==
    \/ Construct
    \/ Validate
    \/ GetParsed
    \/ \E r \in 1..Len(rows) : RowValidate(r)
    \/ \E r \in 1..Len(rows) : RowGetParsedValue(r)
    \/ \E r \in 1..Len(rows) : RowGetRawValue(r)
    \/ \E r \in 1..Len(rows) : \E c \in CellOpColumns(r) : CellValidate(r, c)
    \/ \E r \in 1..Len(rows) : \E c \in CellOpColumns(r) : CellGetParsedValue(r, c)
    \/ \E r \in 1..Len(rows) : \E c \in CellOpColumns(r) : CellGetRawValue(r, c)

\* an upload driven through the operations of BulkRegistrationUpload, Row
\* and Cell in any order
SpecRaw == InitRaw /\ [][NextRaw]_vars


(***************************************************************************)
(* Properties                                                              *)
(***************************************************************************)

\* the operations of Cell that call parse()
ParseOps == {"Cell.validate", "Cell.get_parsed_value"}

CellAt(rs, p) == rs[p[1]].cells[p[2]]

\* the <<row, cell>> positions of the cells of the rows
Positions(rs) ==
    UNION {{<<r, c>> : c \in 1..Len(rs[r].cells)} : r \in 1..Len(rs)}

\* some expected header is absent from the lowercased headers of the document
MissingExpected ==
    \E h \in DOMAIN validations : \A i \in 1..Len(headers) : headers[i] # h

\* column 0 of the first data line of the document
SchemaIdCell == input.csv.lines[1][1]

\* C1: a parse of a cell never raises, whatever the validator, the rule and
\* the raw value: the call returns.
C1_ParseNeverRaises ==
    op \in ParseOps => raised = NoException

\* C2: a cell whose parse produced no value (its _parsed_value is still
\* None) has at least one ErrorRecord with its header, row and column.
C2_AbsentHasError ==
    \A p \in Positions(rows) :
        (/\ op \in ParseOps
         /\ raised = NoException
         /\ visited = <<p>>
         /\ CellAt(rows, p).field.parsed_value = PyNone)
        => \E k \in 1..Len(errors) :
              /\ errors[k].header = CellAt(rows, p).header
              /\ errors[k].row_index = CellAt(rows, p).row_index
              /\ errors[k].column_index = CellAt(rows, p).column_index
              /\ (errors[k].missing \/ errors[k].invalid)

\* C3: one parse of a cell whose rule is required and whose raw value is
\* empty or whitespace-only appends exactly one ErrorRecord, with missing
\* set and invalid not set, and leaves the cell without a value.
C3_RequiredEmptyIsMissing ==
    [][\A p \in Positions(rows) :
          (/\ op' \in ParseOps
           /\ visited' = <<p>>
           /\ Get(CellAt(rows, p).validations, "required", FALSE)
           /\ Strip(CellAt(rows, p).value) = <<>>)
          => /\ raised' = NoException
             /\ errors' = Append(errors, ErrorRecord(CellAt(rows, p), "missing"))
             /\ CellAt(rows', p).field.parsed_value = PyNone]_vars

\* C4: a parse of a cell that follows a parse of the same cell returns what
\* the first returned and appends nothing to the error list.
C4_SecondParseAddsNothing ==
    [][\A p \in Positions(rows) :
          (/\ op \in ParseOps
           /\ raised = NoException
           /\ visited = <<p>>
           /\ op' \in ParseOps
           /\ visited' = <<p>>)
          => /\ raised' = NoException
             /\ errors' = errors
             /\ ParsedOf(CellAt(rows', p)) = ParsedOf(CellAt(rows, p))]_vars

\* C5: for the three-registration document (valid, title empty, category
\* unknown), once validate() has run and get_parsed() has returned, is_valid
\* is false, the error list is exactly missing-title of the second
\* registration then invalid-category of the third, and the output has
\* three registrations.
C5_EndToEnd ==
    (input = EndToEndInput /\ header_validated /\ op = "get_parsed")
    => /\ ~is_valid
       /\ Len(errors) = 2
       /\ errors[1] = [header |-> H_title, column_index |-> 0, row_index |-> 4,
                       missing |-> TRUE, invalid |-> FALSE]
       /\ errors[2] = [header |-> H_category, column_index |-> 7, row_index |-> 5,
                       missing |-> FALSE, invalid |-> TRUE]
       /\ Len(ret.v.registrations) = 3

\* the records are in row-then-column order
RowThenColumn(es) ==
    \A i \in 1..Len(es) : \A j \in i..Len(es) :
        \/ es[i].row_index < es[j].row_index
        \/ /\ es[i].row_index = es[j].row_index
           /\ es[i].column_index <= es[j].column_index

\* C6: a validate() of a document that has every expected header parses
\* every cell of every row, in row-then-column order, and what it appends
\* to the error list is in row-then-column order.
C6_ValidateVisitsEveryCell ==
    [][(status = "constructed" /\ op' = "validate" /\ ~MissingExpected)
       => /\ visited' = ValidateOrder(rows)
          /\ Len(errors') >= Len(errors)
          /\ SubSeq(errors', 1, Len(errors)) = errors
          /\ RowThenColumn(SubSeq(errors', Len(errors) + 1, Len(errors')))]_vars

\* C7: a validate() of a document that lacks an expected header raises the
\* header ValidationError, parses no cell and appends nothing to the error
\* list; as the first call on an upload it leaves the error list empty.
C7_MissingHeaderRaisesFirst ==
    [][(status = "constructed" /\ op' = "validate" /\ MissingExpected)
       => /\ raised' = Exception("ValidationError", "Invalid csv headers")
          /\ visited' = <<>>
          /\ errors' = errors
          /\ rows' = rows
          /\ (op = "__init__" => errors' = <<>>)]_vars

C7_Witness ==
    /\ op = "validate"
    /\ raised.type = "ValidationError"
    /\ MissingExpected
    /\ rows # <<>>
    /\ errors = <<>>

C9_SchemaNotFound ==
    (/\ status # "new"
     /\ input.csv.lines # <<>>
     /\ input.provider_id \in DOMAIN RegistrationProviders
     /\ SchemaIdCell # <<>>
     /\ SchemaIdCell \notin RegistrationProviders[input.provider_id])
    => /\ status = "failed"
       /\ raised = Exception("NotFound", "Schema with id was not found")
       /\ rows = <<>>
       /\ errors = <<>>

C9_Witness ==
    /\ status = "failed"
    /\ raised.type = "NotFound"
    /\ SchemaIdCell = S_s2
    /\ input.provider_id = "osf"

\* C10: when the provider id names no registration provider (and the
\* document carries a schema id), the constructor fails with NotFound and no
\* Row is constructed.
C10_ProviderNotFound ==
    (/\ status # "new"
     /\ input.csv.lines # <<>>
     /\ SchemaIdCell # <<>>
     /\ input.provider_id \notin DOMAIN RegistrationProviders)
    => /\ status = "failed"
       /\ raised.type = "NotFound"
       /\ rows = <<>>

\* C11: in every registration get_parsed() returns, each header of the
\* document is a key of exactly one of metadata and registration_responses,
\* and the two dicts together have as many keys as the document has headers.
C11_PartitionCoversHeaders ==
    (op = "get_parsed" /\ raised = NoException)
    => \A r \in 1..Len(ret.v.registrations) :
         LET parsed == ret.v.registrations[r].csv_parsed
             md == DOMAIN parsed.metadata
             rr == DOMAIN parsed.registration_responses
         IN  /\ \A i \in 1..Len(headers) :
                   (headers[i] \in md) # (headers[i] \in rr)
             /\ Cardinality(md) + Cardinality(rr) = Len(headers)

\* the names the schema of the upload and the fixed metadata table share
CollidingNames ==
    DOMAIN get_questions_validations(RegistrationSchemas[schema_id])
    \cap DOMAIN METADATA_FIELDS

\* C12: for a qid (or nested qid) of the schema that is the name of a fixed
\* metadata field, the merged registry holds the fixed metadata rule, every
\* cell under that header carries that rule and a metadata validator built
\* from it, and get_parsed() puts its value in metadata only.
C12_MetadataRuleWins ==
    status = "constructed"
    => \A h \in CollidingNames :
         /\ validations[h] = METADATA_FIELDS[h]
         /\ \A p \in Positions(rows) :
               CellAt(rows, p).header = h
               => /\ CellAt(rows, p).validations = METADATA_FIELDS[h]
                  /\ CellAt(rows, p).field.cls = "MetadataField"
                  /\ CellAt(rows, p).field.format = METADATA_FIELDS[h].format
                  /\ CellAt(rows, p).field.required
                       = Get(METADATA_FIELDS[h], "required", FALSE)
         /\ (op = "get_parsed" /\ raised = NoException)
            => \A r \in 1..Len(ret.v.registrations) :
                 /\ h \in DOMAIN ret.v.registrations[r].csv_parsed.metadata
                 /\ h \notin DOMAIN ret.v.registrations[r].csv_parsed.registration_responses

C12_Witness ==
    /\ op = "get_parsed"
    /\ raised = NoException
    /\ CollidingNames = {H_title, H_tags}
    /\ Len(ret.v.registrations) > 0
    /\ ret.v.registrations[1].csv_parsed.metadata[H_tags] = PyList(<<S_a, S_b>>)
    /\ errors = <<>>

\* the positions of a separator in a string, and the k-th of them in
\* increasing order (0 before the first, Len + 1 after the last)
Separators(s, sep) == {i \in 1..Len(s) : s[i] = sep}

NthSeparator(s, sep, k) ==
    IF k = 0 THEN 0
    ELSE IF k > Cardinality(Separators(s, sep)) THEN Len(s) + 1
    ELSE CHOOSE i \in Separators(s, sep) :
           Cardinality({j \in Separators(s, sep) : j < i}) = k - 1

\* the text between consecutive separators of a string, each part trimmed,
\* in order
TrimmedParts(s, sep) ==
    [k \in 1..(Cardinality(Separators(s, sep)) + 1) |->
        Strip(SubSeq(s, NthSeparator(s, sep, k - 1) + 1,
                     NthSeparator(s, sep, k) - 1))]

\* the ';'-separated tokens of a string, each trimmed, in order
TrimmedTokens(s) == TrimmedParts(s, ";")

\* a step that is the first parse of the cell at p
FirstParseOf(p) ==
    /\ op' \in ParseOps
    /\ visited' = <<p>>
    /\ CellAt(rows, p).field.parsed_value = PyNone

RequiredAndEmpty(cell) ==
    Get(cell.validations, "required", FALSE) /\ Strip(cell.value) = <<>>

\* C13: the first parse of a generic metadata cell (title, description,
\* tags, external id) that is not required-and-empty logs nothing and
\* stores, for a list rule, the ';'-separated tokens of the raw value, each
\* trimmed, in order, duplicates and empty tokens kept, and for a string
\* rule the trimmed raw value.
C13_MetadataGeneric ==
    [][\A p \in Positions(rows) :
          (/\ FirstParseOf(p)
           /\ CellAt(rows, p).field.cls = "MetadataField"
           /\ ~RequiredAndEmpty(CellAt(rows, p)))
          => /\ raised' = NoException
             /\ errors' = errors
             /\ CellAt(rows, p).validations.format = "list"
                => CellAt(rows', p).field.parsed_value
                     = PyList(TrimmedTokens(CellAt(rows, p).value))
             /\ CellAt(rows, p).validations.format = "string"
                => CellAt(rows', p).field.parsed_value
                     = PyStr(Strip(CellAt(rows, p).value))]_vars

C13_Witness ==
    /\ op = "Cell.get_parsed_value"
    /\ visited = <<<<1, 1>>>>
    /\ rows[1].cells[1].header = H_tags
    /\ rows[1].cells[1].value = V_a_b_c
    /\ ret = PyDict(H_tags :> PyList(<<S_a, S_b, <<"c">> >>))
    /\ errors = <<>>

\* the controlled vocabulary of a Subjects or Institutions cell
Vocabulary(cell) ==
    IF cell.field.cls = "SubjectsField"
    THEN {SubjectTexts[i] : i \in 1..Len(SubjectTexts)}
    ELSE {InstitutionNames[i] : i \in 1..Len(InstitutionNames)}

ElementsOf(list) == {list[i] : i \in 1..Len(list)}

\* C14: the first parse of a Subjects or Institutions cell with a trimmed
\* token outside the vocabulary appends exactly one invalid ErrorRecord and
\* stores no value; with every token in the vocabulary it appends nothing
\* and stores the matched names, each once.
C14_AllOrNothing ==
    [][\A p \in Positions(rows) :
          (/\ FirstParseOf(p)
           /\ CellAt(rows, p).field.cls \in {"SubjectsField", "InstitutionsField"})
          => LET cell   == CellAt(rows, p)
                 tokens == ElementsOf(TrimmedTokens(cell.value))
                 after  == CellAt(rows', p).field.parsed_value
             IN  /\ raised' = NoException
                 /\ (tokens \ Vocabulary(cell) # {})
                    => /\ errors' = Append(errors, ErrorRecord(cell, "invalid"))
                       /\ after = PyNone
                 /\ (tokens \subseteq Vocabulary(cell))
                    => /\ errors' = errors
                       /\ after.t = "list"
                       /\ ElementsOf(after.v) = tokens
                       /\ Len(after.v) = Cardinality(tokens)]_vars

C14_Witness ==
    /\ op = "Cell.validate"
    /\ visited = <<<<1, 1>>>>
    /\ rows[1].cells[1].header = H_subjects
    /\ rows[1].cells[1].value = Join(<<S_psy, V_Nope>>, ";")
    /\ rows[1].cells[1].field.parsed_value = PyNone
    /\ errors = <<ErrorRecord(rows[1].cells[1], "invalid")>>

\* the characters a contributor's name may have: letters, digits, '_',
\* spaces and hyphens
NameChars == WordChars \cup {" ", "-"}

\* pair is the name and the email of the token: the token starts with the
\* name, '<', the email and '>', the name is not empty and made of
\* NameChars, and the email has no '>'
IsNameEmailOf(pair, token) ==
    LET n == Len(pair.full_name)
        m == Len(pair.email)
    IN  /\ n >= 1
        /\ \A i \in 1..n : pair.full_name[i] \in NameChars
        /\ \A i \in 1..m : pair.email[i] # ">"
        /\ Len(token) >= n + m + 2
        /\ SubSeq(token, 1, n + m + 2)
             = pair.full_name \o <<"<">> \o pair.email \o <<">">>

\* the token has the form name<email>
IsNameEmail(token) ==
    \E n \in 1..Len(token) : \E m \in 0..Len(token) :
        /\ n + m + 2 <= Len(token)
        /\ IsNameEmailOf([full_name |-> SubSeq(token, 1, n),
                          email |-> SubSeq(token, n + 2, n + m + 1)], token)

\* C15: the first parse of a contributor cell that is not
\* required-and-empty logs nothing and stores one {full_name, email} per
\* ';'-separated token of the form name<email>, in order, the name and the
\* email being the substrings of the token; the other tokens are dropped.
C15_ContributorList ==
    [][\A p \in Positions(rows) :
          (/\ FirstParseOf(p)
           /\ CellAt(rows, p).field.cls = "ContributorField"
           /\ ~RequiredAndEmpty(CellAt(rows, p)))
          => LET matching == SelectSeq(TrimmedTokens(CellAt(rows, p).value),
                                       IsNameEmail)
                 after    == CellAt(rows', p).field.parsed_value
             IN  /\ raised' = NoException
                 /\ errors' = errors
                 /\ after.t = "list"
                 /\ Len(after.v) = Len(matching)
                 /\ \A k \in 1..Len(matching) :
                       IsNameEmailOf(after.v[k], matching[k])]_vars

C15_Witness ==
    /\ op = "Cell.get_parsed_value"
    /\ visited = <<<<1, 1>>>>
    /\ rows[1].cells[1].header = H_admin
    /\ rows[1].cells[1].value = Join(<<V_bob, V_Al>>, ";")
    /\ ret = PyDict(H_admin :> PyList(<<[full_name |-> <<"A","l">>,
                                         email |-> <<"a","@","b">>]>>))
    /\ errors = <<>>

\* the NodeLicense rows whose name is the given one, letter case ignored
LicensesNamed(name) == {l \in NodeLicenses : Lower(l.name) = Lower(name)}

\* the raw value has the form name; four-digit year; holders, the name
\* being that of a license with required properties
IsExtendedLicense(value) ==
    LET tokens == TrimmedTokens(value)
    IN  /\ Len(tokens) = 3
        /\ \E l \in LicensesNamed(tokens[1]) : l.properties # <<>>
        /\ Len(tokens[2]) = 4
        /\ \A i \in 1..4 : tokens[2][i] \in Digits
        /\ tokens[3] # <<>>

\* C16: the first parse of a license cell logs nothing and stores {name}
\* when the raw value is the name of a license without required
\* properties, and {name, required_field: {year, copyright_holders}} with
\* the name as written, the four digits of the year and the holders trimmed
\* in order when the raw value is name; year; holders for a license with
\* required properties.
C16_LicenseSuccess ==
    [][\A p \in Positions(rows) :
          (/\ FirstParseOf(p)
           /\ CellAt(rows, p).field.cls = "LicenseField")
          => LET value  == CellAt(rows, p).value
                 tokens == TrimmedTokens(value)
                 after  == CellAt(rows', p).field.parsed_value
             IN  /\ (\E l \in LicensesNamed(Strip(value)) : l.properties = <<>>)
                    => /\ raised' = NoException
                       /\ errors' = errors
                       /\ after = PyDict([name |-> Strip(value)])
                 /\ IsExtendedLicense(value)
                    => /\ raised' = NoException
                       /\ errors' = errors
                       /\ after = PyDict(
                            [name |-> tokens[1],
                             required_field |->
                               [year |-> tokens[2],
                                copyright_holders |->
                                  TrimmedParts(tokens[3], ",")]])]_vars

\* the leading name of a license cell: the longest run of letters, digits,
\* '_' and spaces its trimmed raw value starts with
LeadingName(value) ==
    SubSeq(Strip(value), 1, RunLen(Strip(value), WordChars \cup {" "}))

\* C17: the first parse of a license cell whose leading name is that of a
\* license with required properties and whose value does not match the
\* extended grammar returns, stores no value and appends no ErrorRecord.
C17_StrictMismatchIsSilent ==
    [][\A p \in Positions(rows) :
          (/\ FirstParseOf(p)
           /\ CellAt(rows, p).field.cls = "LicenseField"
           /\ LeadingName(CellAt(rows, p).value) # <<>>
           /\ \E l \in LicensesNamed(LeadingName(CellAt(rows, p).value)) :
                 l.properties # <<>>
           /\ ~with_required_fields_regex(Strip(CellAt(rows, p).value)).matched)
          => /\ raised' = NoException
             /\ errors' = errors
             /\ CellAt(rows', p).field.parsed_value = PyNone
             /\ op' = "Cell.get_parsed_value"
                => ret' = PyDict(CellAt(rows, p).header :> PyStr(<<>>))]_vars

C17_Witness ==
    /\ op = "Cell.get_parsed_value"
    /\ visited = <<<<1, 1>>>>
    /\ rows[1].cells[1].header = H_license
    /\ rows[1].cells[1].value = V_BSD_noholder
    /\ rows[1].cells[1].field.parsed_value = PyNone
    /\ errors = <<>>

\* the longest run of letters, digits, '_' and spaces a text starts with
LeadingRun(text) == SubSeq(text, 1, RunLen(text, WordChars \cup {" "}))

\* the step logs exactly one invalid ErrorRecord for the cell at p and
\* leaves it without a value
LogsOneInvalid(p) ==
    /\ raised' = NoException
    /\ errors' = Append(errors, ErrorRecord(CellAt(rows, p), "invalid"))
    /\ CellAt(rows', p).field.parsed_value = PyNone

\* what a parse step of the lookup-backed cell at p does when key is the
\* text looked up: a miss logs one invalid record and stores nothing, a hit
\* logs nothing, and a project hit stores the key
LookupOutcome(p, key) ==
    LET cls   == CellAt(rows, p).field.cls
        after == CellAt(rows', p).field.parsed_value
    IN  /\ cls = "LicenseField"
           => IF LicensesNamed(LeadingRun(key)) = {}
              THEN LogsOneInvalid(p)
              ELSE raised' = NoException /\ errors' = errors
        /\ cls = "CategoryField"
           => IF key \notin DOMAIN NODE_CATEGORY_MAP
              THEN LogsOneInvalid(p)
              ELSE /\ raised' = NoException
                   /\ errors' = errors
                   /\ after = PyStr(NODE_CATEGORY_MAP[key])
        /\ cls = "ProjectIDField"
           => IF key \notin ProjectGuids
              THEN LogsOneInvalid(p)
              ELSE /\ raised' = NoException
                   /\ errors' = errors
                   /\ after = PyStr(key)

\* C18 as stated: the text looked up is the raw value of the cell (a
\* required cell that is empty or whitespace-only aside).
C18_LookupMissIsInvalid_raw ==
    [][\A p \in Positions(rows) :
          (/\ FirstParseOf(p)
           /\ ~RequiredAndEmpty(CellAt(rows, p)))
          => LookupOutcome(p, CellAt(rows, p).value)]_vars

\* C18 amended: the text looked up is the trimmed raw value: the first
\* parse of a License, Category or ProjectReference cell (a required cell
\* that is empty or whitespace-only aside) logs exactly one invalid
\* ErrorRecord and stores nothing on a miss, logs nothing on a hit, and a
\* ProjectReference hit stores the trimmed identifier.
C18_LookupMissIsInvalid ==
    [][\A p \in Positions(rows) :
          (/\ FirstParseOf(p)
           /\ ~RequiredAndEmpty(CellAt(rows, p)))
          => LookupOutcome(p, Strip(CellAt(rows, p).value))]_vars

C18_Witness ==
    /\ op = "Cell.validate"
    /\ visited = <<<<1, 1>>>>
    /\ rows[1].cells[1].header = H_category
    /\ rows[1].cells[1].value = V_bogus
    /\ rows[1].cells[1].field.parsed_value = PyNone
    /\ errors = <<ErrorRecord(rows[1].cells[1], "invalid")>>

\* one "invalid" per token that is not among the options, in order
InvalidPerBadToken(cell, tokens, options) ==
    LET bad(t) == t \notin ElementsOf(options)
        bads   == SelectSeq(tokens, bad)
    IN  [k \in 1..Len(bads) |-> ErrorRecord(cell, "invalid")]

\* C19: the first parse of a multiselect cell returns, stores the list of
\* the trimmed ';'-separated tokens that are among the options, in order,
\* and appends exactly one invalid ErrorRecord per token that is not.
C19_MultiselectKeepsValid ==
    [][\A p \in Positions(rows) :
          (/\ FirstParseOf(p)
           /\ CellAt(rows, p).field.cls = "RegistrationResponseField"
           /\ CellAt(rows, p).field.type = "choose"
           /\ CellAt(rows, p).field.format = "multiselect"
           /\ ~RequiredAndEmpty(CellAt(rows, p)))
          => LET cell    == CellAt(rows, p)
                 tokens  == TrimmedTokens(cell.value)
                 good(t) == t \in ElementsOf(cell.field.options)
             IN  /\ raised' = NoException
                 /\ CellAt(rows', p).field.parsed_value
                      = PyList(SelectSeq(tokens, good))
                 /\ errors' = errors
                      \o InvalidPerBadToken(cell, tokens, cell.field.options)]_vars

\* the text between consecutive separators of a string, untrimmed, in order
RawParts(s, sep) ==
    [k \in 1..(Cardinality(Separators(s, sep)) + 1) |->
        SubSeq(s, NthSeparator(s, sep, k - 1) + 1, NthSeparator(s, sep, k) - 1)]

\* the cell texts of the line of the document that row r was built from
SourceLine(r) == input.csv.lines[r + 1]

\* C20: whatever calls have been made, every Cell's value is the text of
\* its column in its line of the document, untrimmed, and what
\* get_raw_value returns for a Row (and get_parsed as csv_raw) reads, between
\* its commas, the texts of that line in header order; Cell.get_raw_value
\* returns the text of a cell.
C20_RawValuesUnchanged ==
    status = "constructed"
    => /\ \A r \in 1..Len(rows) :
             /\ Len(rows[r].cells) = Len(SourceLine(r))
             /\ \A k \in 1..Len(rows[r].cells) :
                   rows[r].cells[k].value = SourceLine(r)[k]
       /\ op = "Row.get_raw_value"
          => \E r \in 1..Len(rows) :
                ret.t = "str" /\ RawParts(ret.v, ",") = SourceLine(r)
       /\ op = "Cell.get_raw_value"
          => \E r \in 1..Len(rows) : \E k \in 1..Len(SourceLine(r)) :
                ret = PyStr(SourceLine(r)[k])
       /\ (op = "get_parsed" /\ raised = NoException)
          => \A r \in 1..Len(rows) :
                RawParts(ret.v.registrations[r].csv_raw, ",") = SourceLine(r)

C20_Witness ==
    /\ op = "Row.get_raw_value"
    /\ header_validated
    /\ errors # <<>>
    /\ rows[1].cells[1].value = V_T_padded
    /\ rows[1].cells[1].field.parsed_value = PyStr(V_T)
    /\ RawParts(ret.v, ",") = SourceLine(1)

\* the record names a cell of the document: line row_index of the source
\* (the header line being line 1, lines[j] line j + 1) is a registration
\* line, column column_index (0-based) is a column of the header line, the
\* record's header is that column's header lowercased, and the Row built
\* from that line holds at that column the value the document has there
LocatesCell(e) ==
    LET r == e.row_index - 2
        k == e.column_index + 1
    IN  /\ e.row_index - 1 \in 2..Len(input.csv.lines)
        /\ k \in 1..Len(input.csv.fieldnames)
        /\ e.header = Lower(input.csv.fieldnames[k])
        /\ r \in 1..Len(rows)
        /\ k \in 1..Len(rows[r].cells)
        /\ rows[r].cells[k].header = e.header
        /\ rows[r].cells[k].value = input.csv.lines[e.row_index - 1][k]

\* C21: every ErrorRecord of the upload locates its cell: header is the
\* lowercased header of the column, column_index its 0-based position, and
\* row_index the 1-based line number of the cell's row, the header line
\* being line 1 (the first registration row has row_index 3); the records
\* an operation appends are those of cells the operation has parsed; the
\* cells of different rows log under different row_index values
C21_RecordLocatesCell ==
    /\ [](\A i \in 1..Len(errors) : LocatesCell(errors[i]))
    /\ [](\A p, q \in Positions(rows) :
            (CellAt(rows, p).row_index = CellAt(rows, q).row_index) <=> (p[1] = q[1]))
    /\ [](\A p \in Positions(rows) :
            (p[1] = 1) => (CellAt(rows, p).row_index = 3))
    /\ [][\A i \in (Len(errors) + 1)..Len(errors') :
            \E j \in 1..Len(visited') :
               visited'[j] = <<errors'[i].row_index - 2,
                               errors'[i].column_index + 1>>]_vars

\* records of the first and of the second registration row
C21_Witness ==
    /\ \E i \in 1..Len(errors) : errors[i].row_index = 3 /\ errors[i].column_index > 0
    /\ \E i \in 1..Len(errors) : errors[i].row_index = 4

\* the document with every column of the schema id line but column 0
\* replaced by the empty text
SchemaIdOnly(csv) ==
    [csv EXCEPT !.lines[1] =
        [i \in 1..Len(csv.lines[1]) |-> IF i = 1 THEN csv.lines[1][1] ELSE <<>>]]

\* the constructed upload holds the schema id of column 0 of the first data
\* line and one Row per later data line, in source order, and is the upload
\* the constructor builds when the other columns of that line are blank
RowsFollowSchemaLine ==
    status = "constructed" =>
        /\ schema_id = SchemaIdCell
        /\ Len(rows) = Len(input.csv.lines) - 1
        /\ \A p \in Positions(rows) :
              /\ CellAt(rows, p).value = SourceLine(p[1])[p[2]]
              /\ CellAt(rows, p).row_index = p[1] + 2
        /\ \A load \in {"None", "DoesNotExist"} :
              LET u == BulkRegistrationUpload(SchemaIdOnly(input.csv),
                                              input.provider_id, load)
              IN  /\ u.exc = NoException
                  /\ u.schema_id = schema_id
                  /\ u.validations = validations
                  /\ \A p \in Positions(rows) :
                        CellAt(u.rows, p).value = CellAt(rows, p).value

\* what a call of get_parsed returns: the schema id and one registrations
\* entry per Row, in the order of the Rows
ReturnsEntryPerRow ==
    /\ raised' = NoException
    /\ ret'.t = "dict"
    /\ ret'.v.schema_id = SchemaIdCell
    /\ Len(ret'.v.registrations) = Len(rows)
    /\ \A r \in 1..Len(rows) :
          ret'.v.registrations[r].csv_raw = Join(SourceLine(r), ",")

\* C22: the schema id is column 0 of the first data line; that line is not
\* a Row and its other columns are ignored; there is one Row per later data
\* line in source order; get_parsed() returns that schema id with one
\* registrations entry per Row in the same order.
C22_SchemaIdAndRows ==
    /\ []RowsFollowSchemaLine
    /\ [][(status = "constructed" /\ op' = "get_parsed") => ReturnsEntryPerRow]_vars

\* the same, for the calls of get_parsed that return
C22_WhenGetParsedReturns ==
    /\ []RowsFollowSchemaLine
    /\ [][(status = "constructed" /\ op' = "get_parsed" /\ raised' = NoException)
             => ReturnsEntryPerRow]_vars

\* the questions of every page of a schema document
QuestionsOf(doc) ==
    UNION {{doc.pages[i].questions[j] : j \in 1..Len(doc.pages[i].questions)} :
             i \in 1..Len(doc.pages)}

\* the nested sub-questions of a question
NestedOf(question) ==
    IF "properties" \in DOMAIN question
    THEN {question.properties[k] : k \in 1..Len(question.properties)}
    ELSE {}

\* the rule of a (sub-)question: its own entries, the defaults for those
\* it does not list
RuleOf(question) ==
    [required |-> IF "required" \in DOMAIN question THEN question.required ELSE FALSE,
     format   |-> IF "format" \in DOMAIN question THEN question.format ELSE "",
     type     |-> IF "type" \in DOMAIN question THEN question.type ELSE "string",
     options  |-> IF "options" \in DOMAIN question THEN question.options ELSE <<>>]

\* the registry reg has exactly the keys of the questions and nested
\* sub-questions of doc, each with the rule of its (sub-)question
IsRegistryOf(reg, doc) ==
    /\ DOMAIN reg =
          {q.qid : q \in QuestionsOf(doc)}
          \cup UNION {{q.qid \o n.id : n \in NestedOf(q)} : q \in QuestionsOf(doc)}
    /\ \A q \in QuestionsOf(doc) :
          /\ reg[q.qid] = RuleOf(q)
          /\ \A n \in NestedOf(q) : reg[q.qid \o n.id] = RuleOf(n)

\* C23: for every schema document the keys of get_questions_validations are
\* exactly the qid of every question of every page and, for every nested
\* sub-question, the parent qid followed by the nested id with no separator,
\* and each key's rule has the (sub-)question's required (default false),
\* format (default empty), type (default "string") and options (default
\* empty list); the constructed upload holds these rules under the
\* questionnaire keys that are not names of fixed metadata fields.
C23_RegistryOfSchema ==
    /\ \A sid \in DOMAIN RegistrationSchemas :
          IsRegistryOf(get_questions_validations(RegistrationSchemas[sid]),
                       RegistrationSchemas[sid].schema)
    /\ status = "constructed" =>
          LET doc == RegistrationSchemas[schema_id].schema
              own == [key \in (DOMAIN validations) \ (DOMAIN METADATA_FIELDS)
                        |-> validations[key]]
              met == [key \in {k \in DOMAIN get_questions_validations(
                                         RegistrationSchemas[schema_id]) :
                                 k \in DOMAIN METADATA_FIELDS}
                        |-> get_questions_validations(
                              RegistrationSchemas[schema_id])[key]]
          IN  IsRegistryOf(own @@ met, doc)

\* an upload constructed for a schema with a nested sub-question that lists
\* none of required, format, type, options but required
C23_Witness ==
    /\ status = "constructed"
    /\ schema_id = S_s2
    /\ S_q4x \in DOMAIN validations
    /\ validations[S_q4x] = [required |-> TRUE, format |-> "",
                             type |-> "string", options |-> <<>>]
    /\ validations[S_q4].required = FALSE

\* the schema the document names, when the provider has it
NamedSchema ==
    IF /\ input.csv.lines # <<>>
       /\ input.provider_id \in DOMAIN RegistrationProviders
       /\ SchemaIdCell \in RegistrationProviders[input.provider_id]
    THEN {SchemaIdCell} ELSE {}

\* the lowercased headers of the document as a set
LoweredHeaders ==
    {Lower(input.csv.fieldnames[i]) : i \in 1..Len(input.csv.fieldnames)}

\* the names a document of schema sid is expected to carry, lowercased:
\* the fixed metadata names and the keys of the schema's questions
LoweredExpected(sid) ==
    (DOMAIN METADATA_FIELDS)
    \cup {Lower(key) : key \in DOMAIN get_questions_validations(RegistrationSchemas[sid])}

\* C24: whatever the letter case of the qids in the schema document, the
\* registry of the upload maps the lowercased header naming a question to
\* that question's rule (a name of a fixed metadata field keeps the fixed
\* rule), the constructor accepts a document whose lowercased headers are
\* expected names, and validate() does not reject the headers of a document
\* that carries every expected name.
C24_LowercaseHeadersResolve ==
    /\ [][\A sid \in NamedSchema :
            (op' = "__init__" /\ LoweredHeaders \subseteq LoweredExpected(sid))
            => /\ raised' = NoException
               /\ \A key \in DOMAIN get_questions_validations(RegistrationSchemas[sid]) :
                     Lower(key) \notin DOMAIN METADATA_FIELDS
                     => /\ Lower(key) \in DOMAIN validations'
                        /\ validations'[Lower(key)] =
                             get_questions_validations(RegistrationSchemas[sid])[key]]_vars
    /\ [][\A sid \in NamedSchema :
            (/\ status = "constructed"
             /\ op' = "validate"
             /\ LoweredExpected(sid) \subseteq LoweredHeaders)
            => raised'.type # "ValidationError"]_vars

\* the same for the schemas whose qids are written in lowercase
C24_LowercaseQidsResolve ==
    /\ [][\A sid \in NamedSchema :
            (/\ op' = "__init__"
             /\ LoweredHeaders \subseteq LoweredExpected(sid)
             /\ \A key \in DOMAIN get_questions_validations(RegistrationSchemas[sid]) :
                   key = Lower(key))
            => /\ raised' = NoException
               /\ \A key \in DOMAIN get_questions_validations(RegistrationSchemas[sid]) :
                     Lower(key) \notin DOMAIN METADATA_FIELDS
                     => /\ Lower(key) \in DOMAIN validations'
                        /\ validations'[Lower(key)] =
                             get_questions_validations(RegistrationSchemas[sid])[key]]_vars
    /\ [][\A sid \in NamedSchema :
            (/\ status = "constructed"
             /\ op' = "validate"
             /\ LoweredExpected(sid) \subseteq LoweredHeaders
             /\ \A key \in DOMAIN get_questions_validations(RegistrationSchemas[sid]) :
                   key = Lower(key))
            => raised'.type # "ValidationError"]_vars

\* the kind of validator each header resolves to, as a table
FieldKindTable ==
    (H_admin :> "ContributorField") @@ (H_read_write :> "ContributorField")
    @@ (H_read_only :> "ContributorField") @@ (H_bibliographic :> "ContributorField")
    @@ (H_license :> "LicenseField") @@ (H_category :> "CategoryField")
    @@ (H_subjects :> "SubjectsField") @@ (H_institutions :> "InstitutionsField")
    @@ (H_project_guid :> "ProjectIDField")
    @@ (H_title :> "MetadataField") @@ (H_description :> "MetadataField")
    @@ (H_tags :> "MetadataField") @@ (H_external_id :> "MetadataField")

FieldKind(name) ==
    IF name \in DOMAIN FieldKindTable THEN FieldKindTable[name]
    ELSE "RegistrationResponseField"

\* names and rules the resolver is applied to: every fixed name, names of
\* questions, and names that are neither; a rule of a required and of an
\* optional field
ResolverNames ==
    (DOMAIN METADATA_FIELDS) \cup {S_q1, S_q4x, S_Q5, H_zz, H_Title, V_empty}

ResolverRules == {METADATA_FIELDS[H_title], METADATA_FIELDS[H_tags]}

\* C25: the validator kind of a cell is a total function of the header
\* alone: the four contributor names give ContributorField, license
\* LicenseField, category CategoryField, subjects SubjectsField, affiliated
\* institutions InstitutionsField, project guid ProjectIDField, the other
\* fixed names (title, description, tags, external id) MetadataField, every
\* other header RegistrationResponseField; resolving logs nothing and the
\* kind of a cell never changes; a cell is metadata exactly when its kind
\* is not RegistrationResponseField.
C25_FieldKindOfHeader ==
    /\ DOMAIN FieldKindTable = DOMAIN METADATA_FIELDS
    /\ \A name \in ResolverNames : \A value \in {V_empty, V_T} :
          \A rule \in ResolverRules :
             field_instance_for(name, value, rule).cls = FieldKind(name)
    /\ \A p \in Positions(rows) :
          /\ CellAt(rows, p).field.cls = FieldKind(CellAt(rows, p).header)
          /\ is_metadata(CellAt(rows, p))
               <=> (CellAt(rows, p).field.cls # "RegistrationResponseField")
    /\ (op = "__init__") => (errors = <<>>)

\* a parsed project guid cell
C25_Witness ==
    /\ op \in ParseOps
    /\ \E p \in Positions(rows) :
          /\ CellAt(rows, p).header = H_project_guid
          /\ CellAt(rows, p).field.cls = "ProjectIDField"
          /\ CellAt(rows, p).field.parsed_value # PyNone

\* the operations that validate: of the upload, of a Row, of a Cell
ValidationOps == {"validate", "Row.validate", "Cell.validate"}

\* the sequential row-by-row pass over the rows as constructed
SequentialPass ==
    LET fresh == BuildRows(input.csv.fieldnames, input.csv.lines, validations)
    IN  ParseCells(ParseStart(fresh, <<>>), ValidateOrder(fresh))

\* the records of a list that name the cell at position p
RecordsAt(errs, p) ==
    {errs[i] : i \in {j \in 1..Len(errs) :
                        /\ errs[j].row_index = p[1] + 2
                        /\ errs[j].column_index = p[2] - 1}}

\* what was logged for a cell, without its location
WhatAt(errs, p) ==
    {[missing |-> e.missing, invalid |-> e.invalid] : e \in RecordsAt(errs, p)}

\* the cells the step has validated have the parsed value and the records
\* the sequential pass seq gives them
SameAsSequential(seq) ==
    \A j \in 1..Len(visited') :
       /\ CellAt(rows', visited'[j]).field.parsed_value
            = CellAt(seq.rows, visited'[j]).field.parsed_value
       /\ RecordsAt(errors', visited'[j]) = RecordsAt(seq.errors, visited'[j])

\* two validated cells with the same header, raw value and rule have the
\* same parsed value and the same kinds of records
SameCellSameOutcome ==
    \A i, j \in 1..Len(visited') :
       (/\ CellAt(rows, visited'[i]).header = CellAt(rows, visited'[j]).header
        /\ CellAt(rows, visited'[i]).value = CellAt(rows, visited'[j]).value
        /\ CellAt(rows, visited'[i]).validations = CellAt(rows, visited'[j]).validations)
       => /\ CellAt(rows', visited'[i]).field.parsed_value
               = CellAt(rows', visited'[j]).field.parsed_value
          /\ WhatAt(errors', visited'[i]) = WhatAt(errors', visited'[j])

\* C26: in whatever order the rows are validated, and however the cell
\* validations of different rows are interleaved, every validated cell has
\* the parsed value and the set of ErrorRecords that the sequential
\* row-by-row pass gives it; the outcome of a cell depends only on its raw
\* value and its rule.
C26_RowsIndependent ==
    [][(status = "constructed" /\ op' \in ValidationOps)
          => /\ SameAsSequential(SequentialPass)
             /\ SameCellSameOutcome]_vars

\* the same for the documents whose sequential pass does not raise
C26_WhenPassCompletes ==
    [][(status = "constructed" /\ op' \in ValidationOps)
          => LET seq == SequentialPass
             IN  (seq.exc = NoException)
                 => (SameAsSequential(seq) /\ SameCellSameOutcome)]_vars

\* the cell is of a field that is not required and its raw value is empty
\* or only whitespace
OptionalAndEmpty(cell) ==
    /\ ~cell.field.required
    /\ Strip(cell.value) = <<>>

\* the optional fixed fields and the optional questions of type string or
\* choose
OptionalFieldNamed(cell) ==
    \/ cell.header \in {H_read_write, H_read_only, H_bibliographic, H_category,
                        H_institutions, H_tags, H_project_guid, H_external_id}
    \/ /\ cell.field.cls = "RegistrationResponseField"
       /\ cell.field.type \in {"string", "choose"}

\* C27: a parse of a cell of an optional field whose raw value is empty or
\* whitespace-only appends no ErrorRecord, for every optional fixed field
\* and every optional question of type string or choose.
C27_OptionalEmptyIsSilent ==
    [][\A p \in Positions(rows) :
          (/\ op' \in ParseOps
           /\ visited' = <<p>>
           /\ OptionalAndEmpty(CellAt(rows, p))
           /\ OptionalFieldNamed(CellAt(rows, p)))
          => errors' = errors]_vars

\* the same for the fields whose validator has no lookup and no option list:
\* the contributor lists, tags, external id and the questions of type string
C27_OptionalEmptyTextIsSilent ==
    [][\A p \in Positions(rows) :
          (/\ op' \in ParseOps
           /\ visited' = <<p>>
           /\ OptionalAndEmpty(CellAt(rows, p))
           /\ \/ CellAt(rows, p).header \in {H_read_write, H_read_only,
                                             H_bibliographic, H_tags, H_external_id}
              \/ /\ CellAt(rows, p).field.cls = "RegistrationResponseField"
                 /\ CellAt(rows, p).field.type = "string")
          => errors' = errors /\ raised' = NoException]_vars

\* C28: a parse of the required contributor cell (admin) that logs no
\* ErrorRecord stores a list with at least one contributor, each with a
\* full_name and an email; a non-empty raw value without a token of the
\* contributor pattern is not stored as the empty list.
C28_AdminHasContributor ==
    [][\A p \in Positions(rows) :
          (/\ FirstParseOf(p)
           /\ CellAt(rows, p).header = H_admin
           /\ errors' = errors)
          => /\ raised' = NoException
             /\ CellAt(rows', p).field.parsed_value.t = "list"
             /\ Len(CellAt(rows', p).field.parsed_value.v) >= 1
             /\ \A k \in 1..Len(CellAt(rows', p).field.parsed_value.v) :
                   DOMAIN CellAt(rows', p).field.parsed_value.v[k]
                     = {"full_name", "email"}]_vars

\* the same for the raw values with a token of the contributor pattern
C28_AdminWithMatchingToken ==
    [][\A p \in Positions(rows) :
          (/\ FirstParseOf(p)
           /\ CellAt(rows, p).header = H_admin
           /\ errors' = errors
           /\ \E k \in 1..Len(TrimmedTokens(CellAt(rows, p).value)) :
                 IsNameEmail(TrimmedTokens(CellAt(rows, p).value)[k]))
          => /\ raised' = NoException
             /\ CellAt(rows', p).field.parsed_value.t = "list"
             /\ Len(CellAt(rows', p).field.parsed_value.v) >= 1
             /\ \A k \in 1..Len(CellAt(rows', p).field.parsed_value.v) :
                   DOMAIN CellAt(rows', p).field.parsed_value.v[k]
                     = {"full_name", "email"}]_vars

\* every Cell of the upload holds the rule the registry has for its header
C29_CellsHaveRules ==
    \A p \in Positions(rows) :
       /\ CellAt(rows, p).header \in DOMAIN validations
       /\ CellAt(rows, p).validations = validations[CellAt(rows, p).header]

\* the document has a header that is neither a fixed metadata name nor a
\* key of schema sid
HasUnknownHeader(sid) == ~(LoweredHeaders \subseteq LoweredExpected(sid))

\* C29: every Cell has a rule, and a document with a header that is neither
\* a fixed metadata field name nor a qid or nested qid of the schema is
\* rejected by header validation: the constructor raises nothing but that
\* error, and validate() raises ValidationError without validating a cell.
C29_UnknownHeaderRejected ==
    /\ []C29_CellsHaveRules
    /\ [][\A sid \in NamedSchema :
            HasUnknownHeader(sid)
            => /\ (op' = "__init__")
                    => raised'.type \in {"none", "ValidationError"}
               /\ (status = "constructed" /\ op' = "validate")
                    => /\ raised'.type = "ValidationError"
                       /\ visited' = <<>>
                       /\ errors' = errors]_vars

\* an upload is constructed only with a schema of its provider resolved
C30_ConstructedHasSchema ==
    status = "constructed" =>
        /\ input.provider_id \in DOMAIN RegistrationProviders
        /\ schema_id \in RegistrationProviders[input.provider_id]
        /\ schema_id # <<>>

\* C30: constructing the upload of a document whose schema-id cell (column 0
\* of the first data line) is empty raises the schema-not-found error
\* (NotFound), as for a schema id that names no schema of the provider, and
\* no upload is constructed, with registry or Rows, without a resolved schema.
C30_EmptySchemaIdNotFound ==
    /\ []C30_ConstructedHasSchema
    /\ [][(/\ op' = "__init__"
           /\ input.csv.lines # <<>>
           /\ SchemaIdCell = <<>>)
          => /\ raised'.type = "NotFound"
             /\ status' = "failed"
             /\ validations' = <<>>
             /\ rows' = <<>>]_vars

====
